---- MODULE Spec2Model ----
(***************************************************************************)
(* A model of sphinx/latexwriter.py: the LaTeXTranslator node visitor and  *)
(* the depth-first walk (document.walkabout) that drives it.               *)
(*                                                                         *)
(* The state is the translator object (variable visitor, one record field  *)
(* per attribute of LaTeXTranslator), the recursion stack of the walk      *)
(* (path), and history variables that record the last hook call.  Every    *)
(* visit_X / depart_X method is an operator X(self, node) that returns the *)
(* translator after the call and the exception the call ended with; every  *)
(* hook has one action, which builds the node (the input tree is generated *)
(* while it is walked) and applies the operator.                           *)
(***************************************************************************)
EXTENDS Integers, Sequences, FiniteSets, TLC

VARIABLES
    writer,     \* the LaTeXWriter object
    visitor,    \* the LaTeXTranslator object
    path,       \* nodes entered and not yet left, the root first
    pc,         \* "walk" | "done" | "error"
    nvisited,   \* number of nodes dispatched so far; the id of the last one
    log,        \* history: the nodes dispatched so far, log[i] the node with id i
    owners,     \* history: for each entry of visitor.context, the node that pushed
                \* it and the entry as it was pushed
    count,      \* history: the pushes and the pops of visitor.context so far
    ev,         \* history: the last hook call (hook, node, exception, translator before
                \* it, translator before the node was entered)
    spans,      \* history: for the node with id i, spans[i].upto the id of the last node
                \* of its subtree (0 while it is open) and spans[i].out the fragments
                \* the active buffer gained from its entry up to its exit hook
    bound       \* the input trees explored: at most bound.nodes nodes, of the kinds
                \* bound.kinds, their literal blocks with the attributes bound.literal,
                \* their described objects with the attributes bound.desc

vars == <<writer, visitor, path, pc, nvisited, log, owners, count, ev, spans, bound>>

\* ------------------------------------------------------------------ bounds

\* Nodes in one input tree built from many node kinds (sections, figures and
\* references with their text, or lists of terms and fields).
MaxNodes == 5
\* Nodes in one input tree built from the kinds of one family (a table with
\* its cells, an option list, literal blocks with their text).
MaxDeepNodes == 8
\* Nodes in one input tree of described objects in the legend of a figure.
MaxLegendNodes == 6
\* Nodes in one input tree of images.
MaxImageNodes == 4
\* Nodes in one input tree of described objects inside described objects.
MaxNestedNodes == 7
\* Nodes in one input tree built from a table with its column definitions,
\* its cells and the literal blocks in them.
MaxCellNodes == 10

\* ------------------------------------------------------------ Python values

\* None where a str or a number may stand, and None where an object may.
None == "None"
NoneObj == [none |-> TRUE]

\* bool(x) for x a str or None.
truthy(x) == x # None /\ x # ""

\* A str or an int on the context stack, tagged with its Python type.
PyStr(s) == [t |-> "str", v |-> s]
PyInt(n) == [t |-> "int", v |-> n]

Last(seq) == seq[Len(seq)]
Front(seq) == SubSeq(seq, 1, Len(seq) - 1)

\* s * n for a str s.
RECURSIVE Rep(_, _)
Rep(s, n) == IF n <= 0 THEN "" ELSE s \o Rep(s, n - 1)

\* ''.join(seq) for a list of str.
RECURSIVE Join(_)
Join(seq) == IF seq = <<>> THEN "" ELSE Head(seq) \o Join(Tail(seq))

\* text.strip() and text.rstrip(chars) on a sequence of characters.
Whitespace == {" ", "\n", "\t"}

RECURSIVE rstrip_chars(_, _)
rstrip_chars(text, chars) ==
    IF text # <<>> /\ Last(text) \in chars THEN rstrip_chars(Front(text), chars) ELSE text

RECURSIVE lstrip_chars(_, _)
lstrip_chars(text, chars) ==
    IF text # <<>> /\ Head(text) \in chars THEN lstrip_chars(Tail(text), chars) ELSE text

strip(text) == lstrip_chars(rstrip_chars(text, Whitespace), Whitespace)

\* What a hook call ends with: the translator it leaves, and the exception
\* it raised ("None": it returned).  Assignments made before a raise stay.
Ret(self) == [self |-> self, exc |-> None]
Raise(self, e) == [self |-> self, exc |-> e]

\* --------------------------------------------------------------- the heap

\* self.body, self._body and self.tablebody are references to list objects.
\* Two lists can be live at a time: the one __init__ creates ("main") and
\* the one the current visit_table creates ("tbl").
body(self) == self.heap[self.body]

\* self.body.append(x)
append(self, x) == [self EXCEPT !.heap[self.body] = Append(@, x)]

\* self.body.extend(xs)
extend(self, xs) == [self EXCEPT !.heap[self.body] = @ \o xs]

\* self.context.append(x)
push(self, x) == [self EXCEPT !.context = Append(@, x)]

\* self.builder.warn(msg)
warn(self, msg) == [self EXCEPT !.warnings = @ \cup {msg}]

\* ------------------------------------------------------------ collaborators

\* A str of the input (the text of a Text leaf, a refuri) is the sequence of
\* its characters; a str the translator emits is a TLA+ string.

\* Raw text of the Text leaves of the input.
TextVals == { <<"x">>, <<"a", "_", "b">> }
\* Text of the Text leaves of a line of a line block.
LineVals == { <<"x">>, <<"a", " ", "b">> }
\* Raw text of the Text leaves of a literal block.
CodeVals == { <<"a", "_", "b">>, <<"y", "\n">> }

\* tex_escape_map[c]: the replacement of a reserved character.
tex_escape_map(c) ==
    CASE c = "_" -> "\\_"
      [] c = "$" -> "\\$"
      [] c = "%" -> "\\%"
      [] c = "&" -> "\\&"
      [] c = "#" -> "\\#"
      [] c = "{" -> "\\{"
      [] c = "}" -> "\\}"
      [] c = "\\" -> "\\textbackslash{}"
      [] c = "~" -> "\\textasciitilde{}"
      [] c = "^" -> "\\textasciicircum{}"
      [] OTHER -> c

\* educateQuotesLatex(text), on the units encode returns: it rewrites quote
\* characters only, and no text of the input holds one.
educateQuotesLatex(units) == units

\* encode(text): one unit of output per character of text.
encode(self, text) ==
    LET t == [i \in DOMAIN text |-> tex_escape_map(text[i])]
    IN  IF self.literal_whitespace # 0
          THEN [i \in DOMAIN t |-> CASE t[i] = "\n" -> "~\\\\\n"
                                     [] t[i] = " " -> "~"
                                     [] OTHER -> t[i]]
          ELSE t

\* highlighter.highlight_block(code, lang, linenos): the highlighted code in
\* a Verbatim environment, as the pieces of the returned string.
highlight_block(code, lang, linenos) ==
    << "\\begin{Verbatim}",
       IF linenos THEN "[commandchars=@\\[\\],numbers=left]" ELSE "[commandchars=@\\[\\]]",
       "\n", code, "\n", "\\end{Verbatim}", "\n" >>

\* ------------------------------------------------------------ construction

\* Table()
Table ==
    [col |-> 0, colcount |-> 0, colspec |-> None, had_head |-> FALSE,
     has_verbatim |-> FALSE]

\* LaTeXTranslator.desc_map.get(desctype, 'describe')
desc_map(desctype) ==
    CASE desctype = "function" -> "funcdesc"
      [] desctype = "class" -> "classdesc"
      [] desctype = "method" -> "methoddesc"
      [] desctype = "staticmethod" -> "staticmethoddesc"
      [] desctype = "exception" -> "excdesc"
      [] desctype = "data" -> "datadesc"
      [] desctype = "attribute" -> "memberdesc"
      [] desctype = "opcode" -> "opcodedesc"
      [] desctype = "cfunction" -> "cfuncdesc"
      [] desctype = "cmember" -> "cmemberdesc"
      [] desctype = "cmacro" -> "csimplemacrodesc"
      [] desctype = "ctype" -> "ctypedesc"
      [] desctype = "cvar" -> "cvardesc"
      [] OTHER -> "describe"

\* Desc(node).  The str fields hold the units encode returned.
Desc(node) ==
    [env |-> desc_map(node.desctype), ni |-> node.noindex,
     type |-> <<>>, cls |-> <<>>, name |-> <<>>, params |-> <<>>, annotation |-> <<>>,
     count |-> 0]

\* sys.maxint
maxint == 2147483647

\* builder.config / document.settings: docclass 'manual', latex_use_parts off.
top_sectionlevel == 1

\* LaTeXTranslator(document, builder)
LaTeXTranslator ==
    [ heap |-> [main |-> <<>>, tbl |-> <<>>],
      body |-> "main",
      _body |-> None,
      _line_start |-> None,
      tablebody |-> None,
      options_title |-> "",
      context |-> <<>>,
      descstack |-> <<>>,
      bibitems |-> <<>>,
      table |-> NoneObj,
      next_table_colspec |-> None,
      highlightlang |-> "python",
      highlightlinenothreshold |-> maxint,
      written_ids |-> {},
      top_sectionlevel |-> top_sectionlevel,
      sectionlevel |-> None,
      next_section_target |-> None,
      verbatim |-> NoneObj,
      in_title |-> 0,
      in_production_list |-> 0,
      first_document |-> 1,
      this_is_the_title |-> 1,
      literal_whitespace |-> 0,
      need_graphicx |-> 0,
      ignore_missing_images |-> FALSE,
      images |-> <<>>,
      warnings |-> {} ]

\* LaTeXWriter(builder): the class attribute output.
LaTeXWriter == [output |-> None]

\* ------------------------------------------------------------------ hooks

\* The templates; HEADER and FOOTER are formatted with the options, of
\* which the title is filled in and the others, which come from the
\* configuration, are left as they are written.
HEADER(title) ==
    "% Generated by Sphinx.\n"
    \o "\\documentclass[%(papersize)s,%(pointsize)s%(classoptions)s]{%(docclass)s}\n"
    \o "\\usepackage[utf8]{inputenc}\n"
    \o "\\usepackage[T1]{fontenc}\n"
    \o "\\usepackage{babel}\n"
    \o "\\title{" \o title \o "}\n"
    \o "\\date{%(date)s}\n"
    \o "\\release{%(release)s}\n"
    \o "\\author{%(author)s}\n"
    \o "\\newcommand{\\sphinxlogo}{%(logo)s}\n"
    \o "\\renewcommand{\\releasename}{%(releasename)s}\n"
    \o "%(preamble)s\n"
    \o "\\makeindex\n"

FOOTER == "\n\\printindex\n\\end{document}\n"

GRAPHICX ==
    "\n%% Check if we are compiling under latex or pdflatex.\n"
    \o "\\ifx\\pdftexversion\\undefined\n"
    \o "  \\usepackage{graphicx}\n"
    \o "\\else\n"
    \o "  \\usepackage[pdftex]{graphicx}\n"
    \o "\\fi\n"

\* visitor.astext(), with latex_use_modindex on and the stylesheet of the
\* highlighter left as it is written.
astext(self) ==
    HEADER(self.options_title) \o "\\makemodindex\n" \o "%(stylesheet)s"
    \o (IF self.need_graphicx # 0 THEN GRAPHICX ELSE "") \o "\n\n"
    \o Join(body(self))
    \o "\\renewcommand{\\indexname}{Module index}\\printmodindex"
    \o "\\renewcommand{\\indexname}{Index}\n" \o FOOTER

\* Faulty variant: the output is assigned as the walk goes.
translate_early(w, completed, self) == [w EXCEPT !.output = astext(self)]

\* LaTeXWriter.translate, after a hook of the walk has returned: the
\* output is assigned when walkabout has returned.
translate(w, completed, self) ==
    IF completed THEN [w EXCEPT !.output = astext(self)] ELSE w

BEGIN_DOC == "\n\\begin{document}\n%(shorthandoff)s\n\\maketitle\n\\tableofcontents\n"

sectionnames ==
    << "part", "chapter", "section", "subsection", "subsubsection",
       "paragraph", "subparagraph" >>

visit_document(self, node) ==
    LET s1 == IF self.first_document = 1
                THEN [append(self, BEGIN_DOC) EXCEPT !.first_document = 0]
              ELSE IF self.first_document = 0
                THEN [append(self, "\n\\appendix\n") EXCEPT !.first_document = -1]
              ELSE self
    IN  Ret([s1 EXCEPT !.sectionlevel = self.top_sectionlevel - 1])

\* The label of self.bibitems with the most characters, the first of them.
RECURSIVE widest(_, _)
widest(bibitems, label) ==
    IF bibitems = <<>> THEN label
    ELSE widest(Tail(bibitems),
                IF Len(label) < Len(Head(bibitems)[1]) THEN Head(bibitems)[1] ELSE label)

\* label.replace(r"\_", "_")
cite_key(label) == IF label = "a\\_b" THEN "a_b" ELSE label

RECURSIVE bibitem_lines(_)
bibitem_lines(bibitems) ==
    IF bibitems = <<>> THEN <<>>
    ELSE LET bi == Head(bibitems)
         IN  << "\\bibitem[" \o bi[1] \o "]{" \o cite_key(bi[1]) \o "}{" \o bi[2] \o "}\n" >>
             \o bibitem_lines(Tail(bibitems))

depart_document(self, node) ==
    IF self.bibitems # <<>> THEN
        LET s1 == append(self, "\n\\begin{thebibliography}{"
                               \o widest(self.bibitems, "") \o "}\n")
            s2 == extend(s1, bibitem_lines(self.bibitems))
            s3 == append(s2, "\\end{thebibliography}\n")
        IN  Ret([s3 EXCEPT !.bibitems = <<>>])
    ELSE Ret(self)

visit_section(self, node) ==
    LET s1 == IF self.this_is_the_title = 0
                THEN [self EXCEPT !.sectionlevel = @ + 1] ELSE self
        s2 == append(s1, "\n\n")
    IN  Ret(IF truthy(s2.next_section_target)
              THEN [append(s2, "\\hypertarget{" \o s2.next_section_target \o "}{}")
                      EXCEPT !.next_section_target = None]
              ELSE s2)

Max(a, b) == IF a >= b THEN a ELSE b

\* Faulty variant: the level goes down by one, with no floor.
depart_section_plain(self, node) == Ret([self EXCEPT !.sectionlevel = @ - 1])

depart_section(self, node) ==
    Ret([self EXCEPT !.sectionlevel = Max(@ - 1, self.top_sectionlevel - 1)])

visit_highlightlang(self, node) ==
    Raise([self EXCEPT !.highlightlang = node.lang,
                       !.highlightlinenothreshold = node.linenothreshold],
          "SkipNode")

visit_productionlist(self, node) ==
    Ret([append(self, "\n\n\\begin{productionlist}\n") EXCEPT !.in_production_list = 1])

depart_productionlist(self, node) ==
    Ret([append(self, "\\end{productionlist}\n\n") EXCEPT !.in_production_list = 0])

visit_production(self, node) ==
    IF node.tokenname # <<>>
      THEN Ret(append(self, "\\production{" \o Join(encode(self, node.tokenname)) \o "}{"))
      ELSE Ret(append(self, "\\productioncont{"))

depart_production(self, node) == Ret(append(self, "}\n"))

visit_topic(self, node) ==
    Ret(append(self, "\\setbox0\\vbox{\n\\begin{minipage}{0.95\\textwidth}\n"))

depart_topic(self, node) ==
    Ret(append(self, "\\end{minipage}}\n\\begin{center}\\setlength{\\fboxsep}{5pt}"
                     \o "\\shadowbox{\\box0}\\end{center}\n"))

\* self.context.pop(): the translator without the entry on top.
pop(self) == [self EXCEPT !.context = Front(@)]

\* self.body.append(self.context.pop())
append_popped(self) ==
    IF self.context = <<>> THEN Raise(self, "IndexError")
    ELSE Ret(append(pop(self), Last(self.context).v))

visit_title(self, node) ==
    IF node.parent = "seealso" THEN Raise(self, "SkipNode")
    ELSE IF self.this_is_the_title # 0 THEN
        LET s1 == IF node.nchildren # 1 /\ ~node.first_is_text
                    THEN warn(self, "document title is not a single Text node")
                    ELSE self
            s2 == IF ~truthy(s1.options_title) THEN [s1 EXCEPT !.options_title = node.astext]
                  ELSE s1
        IN  Raise([s2 EXCEPT !.this_is_the_title = 0], "SkipNode")
    ELSE IF node.parent = "section" THEN
        IF self.sectionlevel \notin -Len(sectionnames) .. Len(sectionnames) - 1
          THEN Raise(self, "IndexError")
          ELSE LET i == IF self.sectionlevel < 0
                          THEN self.sectionlevel + Len(sectionnames) + 1
                          ELSE self.sectionlevel + 1
               IN  Ret([push(append(self, "\\" \o sectionnames[i] \o "{"), PyStr("}\n"))
                          EXCEPT !.in_title = 1])
    ELSE IF node.parent \in {"topic", "sidebar", "admonition"} THEN
        Ret([push(append(self, "\\textbf{"), PyStr("}\n\n\\medskip\n\n"))
               EXCEPT !.in_title = 1])
    ELSE
        Ret([push(append(warn(self, "encountered title node not in section, topic, "
                                    \o "admonition or sidebar"),
                         "\\textbf{"), PyStr("}"))
               EXCEPT !.in_title = 1])

depart_title(self, node) ==
    append_popped([self EXCEPT !.in_title = 0])

visit_seealso(self, node) ==
    Ret(append(self, "\n\n\\strong{See also:}\n\n"))

depart_seealso(self, node) == Ret(append(self, "\n\n"))

\* d.env[:-4], for the values of desc_map.
env_line(env) ==
    CASE env = "funcdesc" -> "func"
      [] env = "classdesc" -> "class"
      [] env = "methoddesc" -> "method"
      [] env = "staticmethoddesc" -> "staticmethod"
      [] env = "excdesc" -> "exc"
      [] env = "datadesc" -> "data"
      [] env = "memberdesc" -> "member"
      [] env = "opcodedesc" -> "opcode"
      [] env = "cfuncdesc" -> "cfunc"
      [] env = "cmemberdesc" -> "cmember"
      [] env = "csimplemacrodesc" -> "csimplemacro"
      [] env = "ctypedesc" -> "ctype"
      [] env = "cvardesc" -> "cvar"
      [] env = "describe" -> "desc"

\* d.ni and 'ni' or ''
ni_suffix(d) == IF d.ni THEN "ni" ELSE ""

\* Faulty variant: the state of the object replaces the stack.
visit_desc_alone(self, node) == Ret([self EXCEPT !.descstack = <<Desc(node)>>])

visit_desc(self, node) == Ret([self EXCEPT !.descstack = Append(@, Desc(node))])

\* Faulty variant: the closing leaves the no-index suffix out.
depart_desc_plain(self, node) ==
    IF self.descstack = <<>> THEN Raise(self, "IndexError")
    ELSE LET d == Last(self.descstack)
         IN  Ret(append([self EXCEPT !.descstack = Front(@)], "\\end{" \o d.env \o "}\n"))

depart_desc(self, node) ==
    IF self.descstack = <<>> THEN Raise(self, "IndexError")
    ELSE LET d == Last(self.descstack)
         IN  Ret(append([self EXCEPT !.descstack = Front(@)],
                        "\\end{" \o d.env \o ni_suffix(d) \o "}\n"))

\* Faulty variant: the name is not reset.
visit_desc_signature_keeps(self, node) ==
    IF self.descstack = <<>> THEN Raise(self, "IndexError")
    ELSE Ret([self EXCEPT !.descstack[Len(self.descstack)] =
                            [@ EXCEPT !.type = <<>>, !.cls = <<>>, !.params = <<>>]])

visit_desc_signature(self, node) ==
    IF self.descstack = <<>> THEN Raise(self, "IndexError")
    ELSE Ret([self EXCEPT !.descstack[Len(self.descstack)] =
                            [@ EXCEPT !.type = <<>>, !.cls = <<>>, !.name = <<>>,
                                      !.params = <<>>]])

\* d.type.rsplit(' ', 1), with container.rstrip('.'); ValueError when the
\* type has no space.
rsplit_type(type) ==
    LET sp == {i \in DOMAIN type : type[i] = " "}
    IN  IF sp = {} THEN [type |-> type, container |-> <<>>]
        ELSE LET i == CHOOSE i \in sp : \A j \in sp : j <= i
             IN  [type |-> SubSeq(type, 1, i - 1),
                  container |-> rstrip_chars(SubSeq(type, i + 1, Len(type)), {"."})]

\* The name of d after the branch on d.env: a C function takes its class.
signature_name(d) ==
    IF d.env = "cfuncdesc" /\ d.cls # <<>> THEN d.cls \o <<"::">> \o d.name ELSE d.name

\* t2, for d with d.cls stripped of its dots.
t2(d) ==
    LET b1(x) == "{" \o Join(x) \o "}"
        opt(x) == "[" \o Join(x) \o "]"
    IN  CASE d.env \in {"funcdesc", "classdesc", "excclassdesc"} -> b1(d.name) \o b1(d.params)
          [] d.env \in {"datadesc", "classdesc*", "excdesc", "csimplemacrodesc"} -> b1(d.name)
          [] d.env \in {"methoddesc", "staticmethoddesc"} ->
               IF d.cls # <<>> THEN opt(d.cls) \o b1(d.name) \o b1(d.params)
               ELSE b1(d.name) \o b1(d.params)
          [] d.env = "memberdesc" ->
               IF d.cls # <<>> THEN opt(d.cls) \o b1(d.name) ELSE b1(d.name)
          [] d.env = "cfuncdesc" -> b1(d.type) \o b1(signature_name(d)) \o b1(d.params)
          [] d.env = "cmemberdesc" ->
               b1(rsplit_type(d.type).container) \o b1(rsplit_type(d.type).type) \o b1(d.name)
          [] d.env = "cvardesc" -> b1(d.type) \o b1(d.name)
          [] d.env = "ctypedesc" -> b1(d.name)
          [] d.env = "opcodedesc" -> b1(d.name) \o b1(d.params)
          [] d.env = "describe" -> b1(d.name)

\* t1
t1(d, hyper) ==
    IF d.count = 0 THEN "\n\n" \o hyper \o "\\begin{" \o d.env \o ni_suffix(d) \o "}"
    ELSE "\n" \o hyper \o "\\" \o env_line(d.env) \o "line" \o ni_suffix(d)

depart_desc_signature(self, node) ==
    IF self.descstack = <<>> THEN Raise(self, "IndexError")
    ELSE LET n     == Len(self.descstack)
             d     == [self.descstack[n] EXCEPT !.cls = rstrip_chars(@, {"."})]
             hyper == IF node.parent_desctype # "describe" /\ node.ids # <<>>
                        THEN "\\hypertarget{" \o node.ids[1] \o "}{}"
                        ELSE ""
             d2    == [d EXCEPT !.count = @ + 1, !.name = signature_name(d)]
         IN  Ret(append([self EXCEPT !.descstack[n] = d2], t1(d, hyper) \o t2(d)))

\* The body of the five hooks of the parts of a signature, for the field of
\* the Desc the part belongs in.
desc_part(self, node, field) ==
    IF self.descstack = <<>> THEN Raise(self, "IndexError")
    ELSE LET n == Len(self.descstack)
             d == self.descstack[n]
         IN  IF d.env = "describe"
               THEN Raise([self EXCEPT !.descstack[n].name = @ \o encode(self, node.astext)],
                          "SkipNode")
               ELSE Raise([self EXCEPT !.descstack[n][field] = encode(self, strip(node.astext))],
                          "SkipNode")

visit_desc_type(self, node) == desc_part(self, node, "type")

\* Faulty variant: the name goes to the output as well.
visit_desc_name_emits(self, node) ==
    LET r == desc_part(self, node, "name")
    IN  Raise(append(r.self, Join(encode(self, node.astext))), r.exc)

visit_desc_name(self, node) == desc_part(self, node, "name")

visit_desc_addname(self, node) == desc_part(self, node, "cls")

visit_desc_parameterlist(self, node) == desc_part(self, node, "params")

visit_desc_annotation(self, node) == desc_part(self, node, "annotation")

visit_desc_content(self, node) ==
    IF node.first_is_desc THEN Ret(append(self, "~")) ELSE Ret(self)

depart_desc_content(self, node) == Ret(self)

\* Faulty variant: the closer is pushed before the skip.
visit_rubric_pushes(self, node) ==
    IF node.nchildren = 1 /\ node.astext = "Footnotes"
      THEN Raise(push(self, PyStr("}\n")), "SkipNode")
      ELSE Ret(push(append(self, "\\paragraph{"), PyStr("}\n")))

visit_rubric(self, node) ==
    IF node.nchildren = 1 /\ node.astext = "Footnotes" THEN Raise(self, "SkipNode")
    ELSE Ret(push(append(self, "\\paragraph{"), PyStr("}\n")))

depart_rubric(self, node) == append_popped(self)

visit_label(self, node) ==
    IF node.parent = "citation"
      THEN Raise([self EXCEPT !.bibitems[Len(self.bibitems)][1] = node.astext], "SkipNode")
      ELSE Raise(self, "SkipNode")

visit_tabular_col_spec(self, node) ==
    Raise([self EXCEPT !.next_table_colspec = node.spec], "SkipNode")

\* Faulty variant: a table inside a table starts a new table.
visit_table_nests(self, node) ==
    Ret([self EXCEPT !.table = Table,
                     !.tablebody = "tbl",
                     !.heap.tbl = <<>>,
                     !._body = self.body,
                     !.body = "tbl"])

visit_table(self, node) ==
    IF self.table # NoneObj THEN Raise(self, "NotImplementedError")
    ELSE Ret([self EXCEPT !.table = Table,
                          !.tablebody = "tbl",
                          !.heap.tbl = <<>>,
                          !._body = self.body,
                          !.body = "tbl"])

\* '%.3f' % (0.95 / colcount), for the column counts where 950 / colcount
\* has no tie that the binary value of 0.95 breaks upwards (colcount < 20).
colwidth(colcount) ==
    LET m == (1900 + colcount - 1) \div (2 * colcount)
        d(i) == CASE i = 0 -> "0" [] i = 1 -> "1" [] i = 2 -> "2" [] i = 3 -> "3"
                  [] i = 4 -> "4" [] i = 5 -> "5" [] i = 6 -> "6" [] i = 7 -> "7"
                  [] i = 8 -> "8" [] i = 9 -> "9"
    IN  "0." \o d(m \div 100) \o d((m \div 10) % 10) \o d(m % 10)

depart_table(self, node) ==
    LET s0 == [self EXCEPT !.body = self._body]
        s1 == IF self.table.has_verbatim
                THEN append(s0, "\n\\begin{tabular}")
                ELSE append(s0, "\n\\begin{tabulary}{\\textwidth}")
        \* the list visit_table created is unreachable from here on
        done(s) == Ret([s EXCEPT !.table = NoneObj, !.tablebody = None, !.heap.tbl = <<>>])
        rest(s2) ==
            LET t3 == extend(s2, self.heap[self.tablebody])
            IN  done(IF self.table.has_verbatim
                       THEN append(t3, "\\end{tabular}\n\n")
                       ELSE append(t3, "\\end{tabulary}\n\n"))
    IN  IF truthy(self.table.colspec) THEN rest(append(s1, self.table.colspec))
        ELSE IF self.table.has_verbatim THEN
            IF self.table.colcount = 0 THEN Raise(s1, "ZeroDivisionError")
            ELSE rest(append(s1, "{|" \o Rep("p{" \o colwidth(self.table.colcount)
                                               \o "\\textwidth}|", self.table.colcount)
                                      \o "}\n"))
        ELSE rest(append(s1, "{|" \o Rep("L|", self.table.colcount) \o "}\n"))

\* Faulty variant: the column is not counted.
visit_colspec_skips(self, node) == Ret(self)

visit_colspec(self, node) == Ret([self EXCEPT !.table.colcount = @ + 1])

depart_colspec(self, node) == Ret(self)

visit_tgroup(self, node) == Ret(self)

depart_tgroup(self, node) == Ret(self)

\* Faulty variant: the pending column spec stays pending.
visit_thead_keeps(self, node) ==
    LET s1 == IF truthy(self.next_table_colspec)
                THEN [self EXCEPT !.table.colspec = "{" \o self.next_table_colspec \o "}\n"]
                ELSE self
    IN  Ret([append(s1, "\\hline\n") EXCEPT !.table.had_head = TRUE])

visit_thead(self, node) ==
    LET s1 == IF truthy(self.next_table_colspec)
                THEN [self EXCEPT !.table.colspec = "{" \o self.next_table_colspec \o "}\n"]
                ELSE self
    IN  Ret([append([s1 EXCEPT !.next_table_colspec = None], "\\hline\n")
               EXCEPT !.table.had_head = TRUE])

depart_thead(self, node) == Ret(append(self, "\\hline\n"))

\* Faulty variant: every body row group is treated as a header.
visit_tbody_always(self, node) == visit_thead(self, node)

visit_tbody(self, node) ==
    IF ~self.table.had_head THEN visit_thead(self, node) ELSE Ret(self)

depart_tbody(self, node) == Ret(append(self, "\\hline\n"))

visit_row(self, node) == Ret([self EXCEPT !.table.col = 0])

depart_row(self, node) == Ret(append(self, "\\\\\n"))

\* Faulty variant: the spans are looked at after the cell was started.
visit_entry_late(self, node) ==
    LET s1 == IF self.table.col > 0 THEN append(self, " & ") ELSE self
        s2 == [s1 EXCEPT !.table.col = @ + 1]
    IN  IF node.morerows \/ node.morecols THEN Raise(s2, "NotImplementedError")
        ELSE IF node.gparent = "thead"
          THEN Ret(push(append(s2, "\\textbf{"), PyStr("}")))
          ELSE Ret(push(s2, PyStr("")))

visit_entry(self, node) ==
    IF node.morerows \/ node.morecols THEN Raise(self, "NotImplementedError")
    ELSE LET s1 == IF self.table.col > 0 THEN append(self, " & ") ELSE self
             s2 == [s1 EXCEPT !.table.col = @ + 1]
         IN  IF node.gparent = "thead"
               THEN Ret(push(append(s2, "\\textbf{"), PyStr("}")))
               ELSE Ret(push(s2, PyStr("")))

depart_entry(self, node) == append_popped(self)

visit_definition_list(self, node) == Ret(append(self, "\\begin{description}\n"))

depart_definition_list(self, node) == Ret(append(self, "\\end{description}\n"))

visit_definition_list_item(self, node) == Ret(self)

depart_definition_list_item(self, node) == Ret(self)

visit_term(self, node) ==
    LET ctx == IF node.ids # <<>>
                 THEN "]" \o "\\hypertarget{" \o node.ids[1] \o "}{}"
                 ELSE "]"
    IN  Ret(push(append(self, "\\item["), PyStr(ctx)))

depart_term(self, node) == append_popped(self)

visit_definition(self, node) == Ret(self)

depart_definition(self, node) == Ret(append(self, "\n"))

visit_paragraph(self, node) == Ret(append(self, "\n"))

depart_paragraph(self, node) == Ret(append(self, "\n"))

\* str(n) of a natural number.
RECURSIVE str(_)
str(n) ==
    LET d == <<"0", "1", "2", "3", "4", "5", "6", "7", "8", "9">>
    IN  IF n < 10 THEN d[n + 1] ELSE str(n \div 10) \o d[(n % 10) + 1]

\* int(amount) of a sequence of digits.
RECURSIVE int(_)
int(digits) ==
    LET v(c) == CHOOSE n \in 0 .. 9 : str(n) = c
    IN  IF digits = <<>> THEN 0 ELSE 10 * int(Front(digits)) + v(Last(digits))

Digit == {"0", "1", "2", "3", "4", "5", "6", "7", "8", "9"}

\* The length of the longest prefix of text made of the units in chars.
RECURSIVE span(_, _)
span(text, chars) ==
    IF text = <<>> \/ Head(text) \notin chars THEN 0 ELSE 1 + span(Tail(text), chars)

\* '%.2f' % (n / 100.0) followed by zeros zeros, for a natural number n.
hundredths(n, zeros) ==
    str(n \div 100) \o "." \o str((n % 100) \div 10) \o str(n % 10) \o zeros

\* latex_image_length(width_str).  The pattern matches every string: the
\* amount is the digits, a dot and the digits the string starts with, the
\* unit is what follows the white space after it, up to the next white
\* space.  float('') and float('.') raise ValueError.  The quotient is
\* formatted for the amounts that are whole numbers.
latex_image_length(width_str) ==
    LET n1     == span(width_str, Digit)
        r1     == SubSeq(width_str, n1 + 1, Len(width_str))
        dot    == IF r1 # <<>> /\ Head(r1) = "." THEN 1 ELSE 0
        r2     == SubSeq(r1, dot + 1, Len(r1))
        n2     == span(r2, Digit)
        amount == SubSeq(width_str, 1, n1 + dot + n2)
        r3     == lstrip_chars(SubSeq(r2, n2 + 1, Len(r2)), Whitespace)
        unit   == SubSeq(r3, 1, span(r3, {r3[i] : i \in DOMAIN r3} \ Whitespace))
    IN  IF unit = <<"p", "x">> THEN [res |-> Join(amount) \o "pt", exc |-> None]
        ELSE IF unit = <<"%">> THEN
            IF n1 + n2 = 0 THEN [res |-> None, exc |-> "ValueError"]
            ELSE [res |-> hundredths(int(SubSeq(width_str, 1, n1)), "0") \o "\\linewidth",
                  exc |-> None]
        ELSE [res |-> Join(width_str), exc |-> None]

\* align_prepost[inline, align]; None for a KeyError.
align_prepost(inline, align) ==
    CASE inline /\ align = "top" -> <<"", "">>
      [] inline /\ align = "middle" -> <<"\\raisebox{-0.5\\height}{", "}">>
      [] inline /\ align = "bottom" -> <<"\\raisebox{-\\height}{", "}">>
      [] ~inline /\ align = "center" -> <<"{\\hfill", "\\hfill}">>
      [] ~inline /\ align = "left" -> <<"{", "\\hfill}">>
      [] ~inline /\ align = "right" -> <<"{\\hfill", "}">>
      [] OTHER -> None

\* The classes of nodes.TextElement among the kinds of the trees.
TextElement ==
    {"paragraph", "term", "field_name", "caption", "title", "rubric", "line",
     "production", "option_string", "reference", "literal_block", "doctest_block",
     "label"}

\* uri.find('://') != -1
find_scheme(uri) ==
    \E i \in 1 .. Len(uri) - 2 : SubSeq(uri, i, i + 2) = <<":", "/", "/">>

Reverse(seq) == [i \in 1 .. Len(seq) |-> seq[Len(seq) + 1 - i]]

visit_image(self, node) ==
    LET s0     == [self EXCEPT !.need_graphicx = 1]
        inline == node.parent \in TextElement
        has(k) == k \in node.keys
        width  == IF has("width") THEN latex_image_length(node.width)
                  ELSE [res |-> None, exc |-> None]
        height == IF has("height") /\ width.exc = None THEN latex_image_length(node.height)
                  ELSE [res |-> None, exc |-> None]
        pair   == IF has("align") THEN align_prepost(inline, node.align) ELSE None
        pre    == (IF has("scale")
                     THEN <<"\\scalebox{" \o hundredths(node.scale, "0000") \o "}{">>
                     ELSE <<>>)
                  \o (IF pair # None THEN <<pair[1]>> ELSE <<>>)
                  \o (IF ~inline THEN <<"\n">> ELSE <<>>)
        post   == (IF has("scale") THEN <<"}">> ELSE <<>>)
                  \o (IF pair # None THEN <<pair[2]>> ELSE <<>>)
                  \o (IF ~inline THEN <<"\n">> ELSE <<>>)
        opts   == (IF has("width") THEN <<"width=" \o width.res>> ELSE <<>>)
                  \o (IF has("height") THEN <<"height=" \o height.res>> ELSE <<>>)
        known  == node.uri \in DOMAIN self.images
        uri    == IF known THEN self.images[node.uri] ELSE node.uri
        options == IF opts = <<>> THEN ""
                   ELSE "[" \o opts[1] \o (IF Len(opts) = 2 THEN "," \o opts[2] ELSE "") \o "]"
    IN  IF width.exc # None THEN Raise(s0, width.exc)
        ELSE IF height.exc # None THEN Raise(s0, height.exc)
        ELSE IF ~known /\ self.ignore_missing_images THEN Ret(s0)
        ELSE IF find_scheme(uri) THEN Ret(s0)
        ELSE Ret(extend(extend(extend(s0, Reverse(pre)),
                               <<"\\includegraphics" \o options \o "{" \o Join(uri) \o "}">>),
                        post))

depart_image(self, node) == Ret(self)

visit_figure(self, node) ==
    LET centred == node.align = None \/ node.align = "center"
        align == IF centred THEN "\n\\centering"
                 ELSE "\\begin{flush" \o node.align \o "}"
        align_end == IF centred THEN ""
                     ELSE "\\end{flush" \o node.align \o "}"
    IN  Ret(push(append(self, "\\begin{figure}[htbp]" \o align \o "\n"),
                 PyStr(align_end \o "\\end{figure}\n")))

\* Faulty variant: the closer is appended and left on the stack.
depart_figure_keeps(self, node) == Ret(append(self, Last(self.context).v))

depart_figure(self, node) == append_popped(self)

visit_caption(self, node) == Ret(append(self, "\\caption{"))

depart_caption(self, node) == Ret(append(self, "}"))

visit_legend(self, node) == Ret(append(self, "{\\small "))

depart_legend(self, node) == Ret(append(self, "}"))

\* The targets a reference can carry.
RefUris ==
    { <<>>,
      <<"h", "t", "t", "p", ":", "/", "/", "x">>,
      <<"#", "l", "_", "1">>,
      <<"@", "t", "o", "k", "e", "n", "-", "t">>,
      <<"x", ".", "h", "t", "m", "l">> }

\* scre.sub('!', text) for scre = re.compile(r';\s*'), on the units of text.
RECURSIVE scre_sub(_)
scre_sub(units) ==
    IF units = <<>> THEN <<>>
    ELSE IF Head(units) = ";" THEN <<"!">> \o scre_sub(lstrip_chars(Tail(units), Whitespace))
    ELSE <<Head(units)>> \o scre_sub(Tail(units))

\* string.split(';', maxsplit)
RECURSIVE split(_, _)
split(string, maxsplit) ==
    LET semi == {i \in DOMAIN string : string[i] = ";"}
    IN  IF maxsplit = 0 \/ semi = {} THEN <<string>>
        ELSE LET i == CHOOSE i \in semi : \A j \in semi : i <= j
             IN  <<SubSeq(string, 1, i - 1)>>
                 \o split(SubSeq(string, i + 1, Len(string)), maxsplit - 1)

\* Faulty variant: an entry is an error, whatever its type.
index_entry_strict(self, entry) == Raise(self, "NotImplementedError")

\* The body of the loop of visit_index for one entry; the format of a pair
\* or a triple raises TypeError when the string has too few parts.
index_entry(self, entry) ==
    LET part(x) == Join(encode(self, strip(x)))
    IN  CASE entry.type = "single" ->
               Ret(append(self, "\\index{" \o Join(scre_sub(encode(self, entry.string)))
                                \o "}"))
          [] entry.type = "pair" ->
               LET parts == split(entry.string, 1)
               IN  IF Len(parts) # 2 THEN Raise(self, "TypeError")
                   ELSE Ret(append(self, "\\indexii{" \o part(parts[1]) \o "}{"
                                         \o part(parts[2]) \o "}"))
          [] entry.type = "triple" ->
               LET parts == split(entry.string, 2)
               IN  IF Len(parts) # 3 THEN Raise(self, "TypeError")
                   ELSE Ret(append(self, "\\indexiii{" \o part(parts[1]) \o "}{"
                                         \o part(parts[2]) \o "}{" \o part(parts[3]) \o "}"))
          [] OTHER ->
               Ret(warn(self, "unknown index entry type " \o entry.type \o " found"))

RECURSIVE visit_index(_, _)
visit_index(self, node) ==
    IF node.entries = <<>> THEN Raise(self, "SkipNode")
    ELSE LET r == index_entry(self, Head(node.entries))
         IN  IF r.exc # None THEN r
             ELSE visit_index(r.self, [node EXCEPT !.entries = Tail(@)])

\* uri.startswith(prefix)
startswith(uri, prefix) ==
    Len(prefix) <= Len(uri) /\ SubSeq(uri, 1, Len(prefix)) = prefix

visit_reference(self, node) ==
    LET uri == node.refuri
    IN  IF self.in_title # 0 \/ uri = <<>> THEN Ret(push(self, PyStr("")))
        ELSE IF \/ startswith(uri, <<"m", "a", "i", "l", "t", "o", ":">>)
                \/ startswith(uri, <<"h", "t", "t", "p", ":">>)
                \/ startswith(uri, <<"f", "t", "p", ":">>)
          THEN Ret(push(append(self, "\\href{" \o Join(encode(self, uri)) \o "}{"),
                        PyStr("}")))
        ELSE IF startswith(uri, <<"#">>)
          THEN Ret(push(append(self, "\\hyperlink{" \o Join(Tail(uri)) \o "}{"),
                        PyStr("}")))
        ELSE IF startswith(uri, <<"@", "t", "o", "k", "e", "n">>)
          THEN Ret(push(append(self, IF self.in_production_list # 0
                                       THEN "\\token{" ELSE "\\grammartoken{"),
                        PyStr("}")))
        ELSE Ret(push(warn(self, "unusable reference target found: " \o Join(uri)), PyStr("")))

\* Faulty variant: a closing brace whatever was pushed.
depart_reference_brace(self, node) ==
    IF self.context = <<>> THEN Raise(self, "IndexError")
    ELSE Ret(append(pop(self), "}"))

depart_reference(self, node) == append_popped(self)

\* add_target(id) of visit_target
add_target(self, id) ==
    IF startswith(id, <<"i", "n", "d", "e", "x", "-">>) THEN self
    ELSE append(self, "\\hypertarget{" \o Join(id) \o "}{}")

\* node.parent[parindex + 1] raises IndexError for the last child: next is
\* the kind of sibling found, "section", "other" or "none".
visit_target(self, node) ==
    IF node.has_refid /\ node.refid \notin self.written_ids
      THEN IF node.next = "section"
             THEN Ret([self EXCEPT !.next_section_target = Join(node.refid)])
             ELSE Ret([add_target(self, node.refid)
                         EXCEPT !.written_ids = @ \cup {node.refid}])
      ELSE Ret(self)

depart_target(self, node) == Ret(self)

visit_citation(self, node) ==
    Ret(push([self EXCEPT !.bibitems = Append(@, <<"", "">>)], PyInt(Len(body(self)))))

\* text = ''.join(self.body[size:]); del self.body[size:]
cut_body(self) ==
    IF self.context = <<>> THEN Raise(self, "IndexError")
    ELSE LET size == Last(self.context)
             s1   == pop(self)
         IN  IF size.t # "int" THEN Raise(s1, "TypeError")
             ELSE LET n    == IF size.v > Len(body(s1)) THEN Len(body(s1)) ELSE size.v
                      text == Join(SubSeq(body(s1), n + 1, Len(body(s1))))
                  IN  Ret([s1 EXCEPT !.heap[s1.body] = SubSeq(@, 1, n),
                                     !.bibitems[Len(s1.bibitems)][2] = text])

depart_citation(self, node) == cut_body(self)

\* text.rstrip('\n') on a sequence of characters.
RECURSIVE rstrip_nl(_)
rstrip_nl(text) ==
    IF text # <<>> /\ Last(text) = "\n" THEN rstrip_nl(Front(text)) ELSE text

\* text.count('\n')
count_nl(text) == Cardinality({i \in DOMAIN text : text[i] = "\n"})

\* hlcode.replace(old, new), where old can only be a whole piece of hlcode.
replace(pieces, old, new) ==
    [i \in DOMAIN pieces |-> IF pieces[i] = old THEN new ELSE pieces[i]]

\* hlcode.rstrip(): the pieces of white space at the end go.
RECURSIVE rstrip(_)
rstrip(pieces) ==
    IF pieces # <<>> /\ Last(pieces) \in {"", "\n", " "} THEN rstrip(Front(pieces))
    ELSE pieces

\* hlcode[:-n]: the last n characters go; a piece cut in two keeps a mark.
RECURSIVE drop_last(_, _)
drop_last(pieces, n) ==
    IF n = 0 \/ pieces = <<>> THEN pieces
    ELSE IF Len(Last(pieces)) <= n THEN drop_last(Front(pieces), n - Len(Last(pieces)))
    ELSE Append(Front(pieces), Last(pieces) \o "[:-n]")

\* Faulty variant: the block starts no accumulator.
visit_literal_block_emits(self, node) == Ret(self)

visit_literal_block(self, node) == Ret([self EXCEPT !.verbatim = [chars |-> <<>>]])

\* Faulty variant: in a table only the opening marker is renamed.
depart_literal_block_closes(self, node) ==
    LET code    == rstrip_nl(self.verbatim.chars)
        lang    == IF node.has_language THEN node.language ELSE self.highlightlang
        linenos == IF node.has_linenos THEN node.linenos
                   ELSE count_nl(code) >= self.highlightlinenothreshold - 1
        hl0     == highlight_block(Join(code), lang, linenos)
        intable == self.table # NoneObj
        hl1     == IF intable
                     THEN replace(hl0, "\\begin{Verbatim}", "\\begin{OriginalVerbatim}")
                     ELSE hl0
        s1      == IF intable THEN [self EXCEPT !.table.has_verbatim = TRUE] ELSE self
        hl2     == drop_last(rstrip(hl1), 14)
        hl3     == Append(rstrip(hl2), "\n")
        s2      == append(s1, "\n" \o Join(hl3) \o "\\end{Verbatim}\n")
    IN  Ret([s2 EXCEPT !.verbatim = NoneObj])

depart_literal_block(self, node) ==
    LET code    == rstrip_nl(self.verbatim.chars)
        lang    == IF node.has_language THEN node.language ELSE self.highlightlang
        linenos == IF node.has_linenos THEN node.linenos
                   ELSE count_nl(code) >= self.highlightlinenothreshold - 1
        hl0     == highlight_block(Join(code), lang, linenos)
        intable == self.table # NoneObj
        hl1     == IF intable
                     THEN replace(hl0, "\\begin{Verbatim}", "\\begin{OriginalVerbatim}")
                     ELSE hl0
        s1      == IF intable THEN [self EXCEPT !.table.has_verbatim = TRUE] ELSE self
        hl2     == drop_last(rstrip(hl1), 14)
        hl3     == Append(rstrip(hl2), "\n")
        s2      == append(s1, "\n" \o Join(hl3) \o "\\end{"
                              \o (IF intable THEN "Original" ELSE "") \o "Verbatim}\n")
    IN  Ret([s2 EXCEPT !.verbatim = NoneObj])

visit_option(self, node) ==
    IF self.context = <<>> THEN Raise(self, "IndexError")
    ELSE LET top == Last(self.context)
         IN  IF (top.t = "int" /\ top.v # 0) \/ (top.t = "str" /\ top.v # "")
               THEN Ret(append(self, ", "))
               ELSE Ret(self)

\* Faulty variant: the option is not counted.
depart_option_keeps(self, node) ==
    IF self.context = <<>> THEN Raise(self, "IndexError") ELSE Ret(self)

depart_option(self, node) ==
    IF self.context = <<>> THEN Raise(self, "IndexError")
    ELSE IF Last(self.context).t # "int" THEN Raise(self, "TypeError")
    ELSE Ret([self EXCEPT !.context[Len(self.context)].v = @ + 1])

visit_option_group(self, node) == Ret(push(append(self, "\\item ["), PyInt(0)))

\* the popped flag is dropped
drop_popped(self) ==
    IF self.context = <<>> THEN Raise(self, "IndexError")
    ELSE Ret(append(pop(self), "] "))

depart_option_group(self, node) == drop_popped(self)

visit_option_list(self, node) == Ret(append(self, "\\begin{optionlist}{3cm}\n"))

depart_option_list(self, node) == Ret(append(self, "\\end{optionlist}\n"))

visit_option_list_item(self, node) == Ret(self)

depart_option_list_item(self, node) == Ret(self)

visit_option_string(self, node) == Ret(self)

depart_option_string(self, node) == Ret(self)

visit_Text(self, node) ==
    IF self.verbatim # NoneObj
      THEN Ret([self EXCEPT !.verbatim.chars = @ \o node.astext])
      ELSE Ret(append(self, Join(educateQuotesLatex(encode(self, node.astext)))))

depart_Text(self, node) == Ret(self)

\* Faulty variant: a node of an unknown class is passed over.
unknown_visit_passes(self, node) == Ret(self)

unknown_visit(self, node) == Raise(self, "NotImplementedError")

visit_field_list(self, node) == Ret(append(self, "\\begin{quote}\\begin{description}\n"))

depart_field_list(self, node) == Ret(append(self, "\\end{description}\\end{quote}\n"))

visit_field(self, node) == Ret(self)

depart_field(self, node) == Ret(self)

visit_field_name(self, node) == visit_term(self, node)

depart_field_name(self, node) == depart_term(self, node)

visit_field_body(self, node) == visit_definition(self, node)

depart_field_body(self, node) == depart_definition(self, node)

visit_doctest_block(self, node) == visit_literal_block(self, node)

depart_doctest_block(self, node) == depart_literal_block(self, node)

visit_line_block(self, node) ==
    Ret([append(self, "{\\raggedright{}") EXCEPT !.literal_whitespace = 1])

\* del self.body[-1] after the flag is reset, then the closing.
depart_line_block(self, node) ==
    LET s1 == [self EXCEPT !.literal_whitespace = 0]
    IN  IF body(s1) = <<>> THEN Raise(s1, "IndexError")
        ELSE Ret(append([s1 EXCEPT !.heap[s1.body] = Front(@)], "}\n"))

visit_line(self, node) == Ret([self EXCEPT !._line_start = Len(body(self))])

\* Faulty variant: the line break is joined to the fragment before it.
depart_line_joins(self, node) ==
    IF body(self) = <<>> THEN Ret(append(self, "\\\\\n"))
    ELSE Ret([self EXCEPT !.heap[self.body][Len(body(self))] = @ \o "\\\\\n"])

depart_line(self, node) ==
    LET s1 == IF self._line_start = Len(body(self)) THEN append(self, "~") ELSE self
    IN  Ret(append(s1, "\\\\\n"))

\* ---------------------------------------------------------- the input tree

\* Node classes with no visit_ method: dispatch_visit falls to unknown_visit.
UnknownKinds == {"inline"}

Body ==
    { "paragraph", "literal_block", "doctest_block", "table", "tabular_col_spec",
      "figure", "rubric", "citation", "topic", "seealso", "option_list",
      "definition_list", "field_list", "desc", "highlightlang", "productionlist",
      "line_block", "index", "image", "target" }

Inline == {"Text", "reference"} \cup UnknownKinds

\* The node kinds a node may hold as its next child, from the document
\* model: e the entry of path of the parent.
Children(e) ==
    LET k     == e.node.kind
        first == e.nkids = 0
    IN  CASE k = "document" ->
               Body \cup {"section"} \cup (IF first THEN {"title"} ELSE {})
                    \cup (IF e.node.parent = None THEN {"document"} ELSE {})
          [] k = "section" -> Body \cup {"section"} \cup (IF first THEN {"title"} ELSE {})
          [] k \in {"topic", "seealso"} ->
               {"paragraph"} \cup (IF first THEN {"title"} ELSE {})
          [] k \in {"title", "rubric"} ->
               IF e.nkids >= e.node.nchildren THEN {}
               ELSE IF ~first THEN Inline
               ELSE IF e.node.first_is_text THEN {"Text"} ELSE Inline \ {"Text"}
          [] k \in {"paragraph", "term", "field_name", "caption"} -> Inline \cup {"image"}
          [] k \in {"reference", "option_string"} -> {"Text"}
          [] k \in {"literal_block", "doctest_block"} -> {"Text"}
          [] k = "figure" ->
               CASE e.last = None -> {"image", "caption", "legend"}
                 [] e.last = "image" -> {"caption", "legend"}
                 [] e.last = "caption" -> {"legend"}
                 [] OTHER -> {}
          [] k = "legend" -> Body
          [] k = "citation" -> (IF first THEN {"label"} ELSE {"paragraph"})
          [] k = "definition_list" -> {"definition_list_item"}
          [] k = "definition_list_item" ->
               IF first THEN {"term"} ELSE IF e.last = "term" THEN {"definition"} ELSE {}
          [] k \in {"definition", "field_body", "entry"} -> Body
          [] k = "field_list" -> {"field"}
          [] k = "field" ->
               IF first THEN {"field_name"}
               ELSE IF e.last = "field_name" THEN {"field_body"} ELSE {}
          [] k = "option_list" -> {"option_list_item"}
          [] k = "option_list_item" -> IF first THEN {"option_group"} ELSE {}
          [] k = "option_group" -> {"option"}
          [] k = "option" -> IF first THEN {"option_string"} ELSE {}
          [] k = "productionlist" -> {"production"}
          [] k = "production" -> Inline
          [] k = "line_block" -> {"line", "line_block"}
          [] k = "line" -> Inline
          [] k = "desc" ->
               CASE e.last = None -> {"desc_signature"}
                 [] e.last = "desc_signature" -> {"desc_signature", "desc_content"}
                 [] OTHER -> {}
          [] k = "desc_signature" ->
               {"desc_type", "desc_name", "desc_addname", "desc_parameterlist",
                "desc_annotation"}
          [] k = "desc_content" ->
               IF ~first THEN Body
               ELSE IF e.node.first_is_desc THEN {"desc"} ELSE Body \ {"desc"}
          [] k = "table" ->
               (IF first THEN {"title"} ELSE {}) \cup {"tgroup"}
          [] k = "tgroup" ->
               CASE e.last \in {None, "colspec"} ->
                      {"thead", "tbody", "colspec"}
                 [] e.last = "thead" -> {"tbody"}
                 [] OTHER -> {}
          [] k \in {"thead", "tbody"} -> {"row"}
          [] k = "row" -> {"entry"}
          [] OTHER -> {}

\* The node kinds a node may hold as its next child: those of the document
\* model, and after a target what the target found as its next sibling
\* (the target is the node visited last: it has no children).
Content(e) ==
    IF e.last # "target" THEN Children(e)
    ELSE CASE log[nvisited].next = "section" -> Children(e) \cap {"section"}
           [] log[nvisited].next = "other" -> Children(e) \ {"section"}
           [] OTHER -> {}

\* ------------------------------------------------------------- the walk

\* A literal block of the '::' kind, and one of a code-block directive with
\* its language and its linenos option.
PlainLiteral ==
    [has_language |-> FALSE, language |-> None, has_linenos |-> FALSE, linenos |-> FALSE]
CodeBlock ==
    [has_language |-> TRUE, language |-> "c", has_linenos |-> TRUE, linenos |-> TRUE]
LiteralAttrs == {PlainLiteral, CodeBlock}

\* The state after construction of translator v, for the input trees of
\* bound b.
StartWith(b, v) ==
    /\ bound = b
    /\ writer = LaTeXWriter
    /\ visitor = v
    /\ path = <<>>
    /\ pc = "walk"
    /\ nvisited = 0
    /\ log = <<>>
    /\ owners = <<>>
    /\ count = [push |-> 0, pop |-> 0]
    /\ ev = [phase |-> "init", hook |-> "__init__", node |-> [kind |-> None, id |-> 0],
             exc |-> None, pre |-> v, powners |-> <<>>,
             at |-> v]
    /\ spans = <<>>

\* The state after construction, with no image known to the builder.
Start(b) == StartWith(b, LaTeXTranslator)

InitOf(nodes, kinds, literal) ==
    Start([nodes |-> nodes, kinds |-> kinds, literal |-> literal, desc |-> {}])

InitFor(nodes, kinds) == InitOf(nodes, kinds, {PlainLiteral})

\* The trees of described objects with the given attributes.
InitDesc(nodes, kinds, descs) ==
    Start([nodes |-> nodes, kinds |-> kinds, literal |-> {PlainLiteral}, desc |-> descs])

\* The node the walk meets next: its class, its place and its attributes.
Node(kind, attrs) ==
    [kind    |-> kind,
     id      |-> nvisited + 1,
     parent  |-> IF path = <<>> THEN None ELSE Last(path).node.kind,
     gparent |-> IF Len(path) < 2 THEN None ELSE path[Len(path) - 1].node.kind]
    @@ attrs

NoAttrs == [x \in {} |-> x]

Allowed(kind) ==
    IF path = <<>> THEN kind = "document" /\ nvisited = 0
    ELSE kind \in Content(Last(path))

\* The parent has one more child.
Counted(kind) ==
    IF path = <<>> THEN path
    ELSE [path EXCEPT ![Len(path)].nkids = @ + 1, ![Len(path)].last = kind]

\* The pushers after the hook of node id left the context stack as ctx.
Owners(ctx, id) ==
    IF Len(ctx) > Len(owners)
      THEN owners \o [i \in 1 .. Len(ctx) - Len(owners) |->
                        [id |-> id, entry |-> ctx[Len(owners) + i]]]
      ELSE SubSeq(owners, 1, Len(ctx))

\* The pushes and the pops after a hook left the context stack as ctx.
Count(ctx) ==
    IF Len(ctx) > Len(owners) THEN [count EXCEPT !.push = @ + Len(ctx) - Len(owners)]
    ELSE [count EXCEPT !.pop = @ + Len(owners) - Len(ctx)]

\* The fragments the active buffer of translator to holds after those it
\* held in translator from.
Gained(from, to) == SubSeq(body(to), Len(body(from)) + 1, Len(body(to)))

\* node.walkabout(visitor), up to the children: dispatch_visit calls the
\* visit_ method of the node's class.  SkipNode ends the node there, with
\* no child visited and no departure; any other exception ends the walk.
Enter(hook, node, r) ==
    /\ pc = "walk"
    /\ nvisited < bound.nodes
    /\ node.kind \in bound.kinds
    /\ Allowed(node.kind)
    /\ bound' = bound
    /\ writer' = translate(writer, FALSE, r.self)
    /\ nvisited' = nvisited + 1
    /\ visitor' = r.self
    /\ log' = Append(log, node)
    /\ owners' = Owners(r.self.context, node.id)
    /\ count' = Count(r.self.context)
    /\ ev' = [phase |-> "visit", hook |-> hook, node |-> node, exc |-> r.exc,
              pre |-> visitor, powners |-> owners, at |-> visitor]
    /\ spans' = Append(spans,
                       IF r.exc = "SkipNode"
                         THEN [upto |-> node.id, out |-> Gained(visitor, r.self)]
                         ELSE [upto |-> 0, out |-> <<>>])
    /\ IF r.exc = None
         THEN /\ path' = Append(Counted(node.kind),
                                [node |-> node, nkids |-> 0, last |-> None, at |-> visitor])
              /\ pc' = "walk"
       ELSE IF r.exc = "SkipNode"
         THEN /\ path' = Counted(node.kind)
              /\ pc' = "walk"
       ELSE /\ path' = path
            /\ pc' = "error"

\* The children the document model requires are there: the children a node
\* told its visit_ method of, the groups of a table, the body of a group.
Complete(e) ==
    /\ "nchildren" \in DOMAIN e.node => e.nkids = e.node.nchildren
    /\ e.node.kind = "table" => e.last = "tgroup"
    /\ e.node.kind = "tgroup" => e.last = "tbody"
    /\ e.node.kind = "desc" => e.nkids >= 1
    /\ e.last = "target" => log[nvisited].next = "none"
    /\ (e.node.kind = "desc_content" /\ e.node.first_is_desc) => e.nkids >= 1

\* node.walkabout(visitor), after the children: dispatch_departure calls the
\* depart_ method of the node's class.
Leave(kind, hook, r) ==
    /\ pc = "walk"
    /\ path # <<>>
    /\ Last(path).node.kind = kind
    /\ Complete(Last(path))
    /\ bound' = bound
    /\ writer' = translate(writer, r.exc = None /\ Len(path) = 1, r.self)
    /\ visitor' = r.self
    /\ log' = log
    /\ owners' = Owners(r.self.context, Last(path).node.id)
    /\ count' = Count(r.self.context)
    /\ ev' = [phase |-> "depart", hook |-> hook, node |-> Last(path).node, exc |-> r.exc,
              pre |-> visitor, powners |-> owners, at |-> Last(path).at]
    /\ spans' = [spans EXCEPT ![Last(path).node.id] =
                                [upto |-> nvisited, out |-> Gained(Last(path).at, visitor)]]
    /\ nvisited' = nvisited
    /\ IF r.exc = None
         THEN /\ path' = Front(path)
              /\ pc' = IF Len(path) = 1 THEN "done" ELSE "walk"
         ELSE /\ path' = path
              /\ pc' = "error"

\* The node being left.
Cur == Last(path).node

\* ------------------------------------------------------------ the inputs

TitleAttrs ==
    { [astext |-> "T", nchildren |-> 1, first_is_text |-> TRUE],
      [astext |-> "T", nchildren |-> 2, first_is_text |-> FALSE] }

RubricAttrs ==
    { [astext |-> "Footnotes", nchildren |-> 1, first_is_text |-> TRUE],
      [astext |-> "R", nchildren |-> 1, first_is_text |-> TRUE] }

EntryAttrs == [morerows : BOOLEAN, morecols : BOOLEAN]

TermAttrs == { [ids |-> <<>>], [ids |-> <<"t1">>] }

FigureAttrs == { [align |-> None], [align |-> "left"] }

ReferenceAttrs == [refuri : RefUris]

\* The identifiers of images, a local one and a remote one, and the paths
\* the builder may know them by.
LocalUri == <<"a", ".", "p", "n", "g">>
RemoteUri == <<"h", ":", "/", "/", "a">>
ImageUris == {LocalUri, RemoteUri}
ImagePaths == {<<"i", "/", "a">>, <<"f", ":", "/", "/", "b">>}

\* builder.images: some of the identifiers, each with a path.
ImageMaps == UNION {[D -> ImagePaths] : D \in SUBSET ImageUris}

\* node.attributes of an image: keys are the attributes it has besides uri.
Image(uri, keys, scale, width, height, align) ==
    [uri |-> uri, keys |-> keys, scale |-> scale, width |-> width, height |-> height,
     align |-> align]

ImageAttrs ==
    { Image(LocalUri, {}, 0, <<>>, <<>>, ""),
      Image(RemoteUri, {}, 0, <<>>, <<>>, ""),
      Image(LocalUri, {"scale", "width", "height", "align"},
            50, <<"5", "0", "%">>, <<"3", "c", "m">>, "middle"),
      Image(RemoteUri, {"width", "align"}, 0, <<"1", "0", " ", "p", "x">>, <<>>, "left"),
      Image(LocalUri, {"width"}, 0, <<"%">>, <<>>, "") }

\* The attributes of a target: whether it has a refid, the refid, and the
\* sibling after it.
TargetAttrs ==
    [has_refid : BOOLEAN, refid : {<<"a">>, <<"i", "n", "d", "e", "x", "-", "0">>},
     next : {"section", "other", "none"}]

LabelAttrs == { [astext |-> "L1"], [astext |-> "a\\_b"] }

\* The entries of an index node: their type and their string.
Single == [type |-> "single", string |-> <<"a", ";", " ", "b">>]
Pair == [type |-> "pair", string |-> <<"a", ";", " ", "b">>]
Triple == [type |-> "triple", string |-> <<"a", ";", "b", ";", " ", "c">>]
See == [type |-> "see", string |-> <<"a">>]
IndexAttrs ==
    { [entries |-> <<Single>>], [entries |-> <<Pair, Triple>>], [entries |-> <<See>>],
      [entries |-> <<See, Single>>] }

\* The language and the line number threshold of a highlightlang directive.
HighlightAttrs == { [lang |-> "c", linenothreshold |-> 1],
                    [lang |-> "python", linenothreshold |-> maxint] }
ProductionAttrs == { [tokenname |-> <<"e", "_", "x">>], [tokenname |-> <<>>] }

\* The description types: the keys of desc_map, and one that is not a key.
DescTypes ==
    { "function", "class", "method", "staticmethod", "exception", "data", "attribute",
      "opcode", "cfunction", "cmember", "cmacro", "ctype", "cvar", "describe", "envvar" }
DescAttrs == [desctype : DescTypes, noindex : BOOLEAN]
SignatureAttrs == { [ids |-> <<>>], [ids |-> <<"f">>] }
\* The text of a part of a signature: white space around it, a space and
\* a dot in it.
PartTexts == { <<"f">>, <<" ", "T", " ", "C", ".">> }
PartAttrs == [astext : PartTexts]
DescContentAttrs == [first_is_desc : BOOLEAN]

\* The tabularcolumns directive requires its argument: no empty spec.
ColSpecs == {"LL", "|l|r|c|"}
ColSpecAttrs == [spec : ColSpecs]

\* ----------------------------------------------------------- the actions

VisitDocument ==
    LET node == Node("document", NoAttrs)
    IN  Enter("visit_document", node, visit_document(visitor, node))

DepartDocument == Leave("document", "depart_document", depart_document(visitor, Cur))

VisitSection ==
    LET node == Node("section", NoAttrs)
    IN  Enter("visit_section", node, visit_section(visitor, node))

DepartSection == Leave("section", "depart_section", depart_section(visitor, Cur))

VisitTopic ==
    LET node == Node("topic", NoAttrs)
    IN  Enter("visit_topic", node, visit_topic(visitor, node))

DepartTopic == Leave("topic", "depart_topic", depart_topic(visitor, Cur))

VisitTitle ==
    \E a \in TitleAttrs :
        LET node == Node("title", a)
        IN  Enter("visit_title", node, visit_title(visitor, node))

DepartTitle == Leave("title", "depart_title", depart_title(visitor, Cur))

VisitSeealso ==
    LET node == Node("seealso", NoAttrs)
    IN  Enter("visit_seealso", node, visit_seealso(visitor, node))

DepartSeealso == Leave("seealso", "depart_seealso", depart_seealso(visitor, Cur))

VisitRubric ==
    \E a \in RubricAttrs :
        LET node == Node("rubric", a)
        IN  Enter("visit_rubric", node, visit_rubric(visitor, node))

DepartRubric == Leave("rubric", "depart_rubric", depart_rubric(visitor, Cur))

VisitLabel ==
    \E a \in LabelAttrs :
        LET node == Node("label", a)
        IN  Enter("visit_label", node, visit_label(visitor, node))

VisitTabularColSpec ==
    \E a \in ColSpecAttrs :
        LET node == Node("tabular_col_spec", a)
        IN  Enter("visit_tabular_col_spec", node, visit_tabular_col_spec(visitor, node))

VisitTable ==
    LET node == Node("table", NoAttrs)
    IN  Enter("visit_table", node, visit_table(visitor, node))

DepartTable == Leave("table", "depart_table", depart_table(visitor, Cur))

VisitColspec ==
    LET node == Node("colspec", NoAttrs)
    IN  Enter("visit_colspec", node, visit_colspec(visitor, node))

DepartColspec == Leave("colspec", "depart_colspec", depart_colspec(visitor, Cur))

VisitTgroup ==
    LET node == Node("tgroup", NoAttrs)
    IN  Enter("visit_tgroup", node, visit_tgroup(visitor, node))

DepartTgroup == Leave("tgroup", "depart_tgroup", depart_tgroup(visitor, Cur))

VisitThead ==
    LET node == Node("thead", NoAttrs)
    IN  Enter("visit_thead", node, visit_thead(visitor, node))

DepartThead == Leave("thead", "depart_thead", depart_thead(visitor, Cur))

VisitTbody ==
    LET node == Node("tbody", NoAttrs)
    IN  Enter("visit_tbody", node, visit_tbody(visitor, node))

DepartTbody == Leave("tbody", "depart_tbody", depart_tbody(visitor, Cur))

VisitRow ==
    LET node == Node("row", NoAttrs)
    IN  Enter("visit_row", node, visit_row(visitor, node))

DepartRow == Leave("row", "depart_row", depart_row(visitor, Cur))

VisitEntry ==
    \E a \in EntryAttrs :
        LET node == Node("entry", a)
        IN  Enter("visit_entry", node, visit_entry(visitor, node))

DepartEntry == Leave("entry", "depart_entry", depart_entry(visitor, Cur))

VisitDefinitionList ==
    LET node == Node("definition_list", NoAttrs)
    IN  Enter("visit_definition_list", node, visit_definition_list(visitor, node))

DepartDefinitionList == Leave("definition_list", "depart_definition_list", depart_definition_list(visitor, Cur))

VisitDefinitionListItem ==
    LET node == Node("definition_list_item", NoAttrs)
    IN  Enter("visit_definition_list_item", node, visit_definition_list_item(visitor, node))

DepartDefinitionListItem == Leave("definition_list_item", "depart_definition_list_item", depart_definition_list_item(visitor, Cur))

VisitTerm ==
    \E a \in TermAttrs :
        LET node == Node("term", a)
        IN  Enter("visit_term", node, visit_term(visitor, node))

DepartTerm == Leave("term", "depart_term", depart_term(visitor, Cur))

VisitDefinition ==
    LET node == Node("definition", NoAttrs)
    IN  Enter("visit_definition", node, visit_definition(visitor, node))

DepartDefinition == Leave("definition", "depart_definition", depart_definition(visitor, Cur))

VisitFieldList ==
    LET node == Node("field_list", NoAttrs)
    IN  Enter("visit_field_list", node, visit_field_list(visitor, node))

DepartFieldList == Leave("field_list", "depart_field_list", depart_field_list(visitor, Cur))

VisitField ==
    LET node == Node("field", NoAttrs)
    IN  Enter("visit_field", node, visit_field(visitor, node))

DepartField == Leave("field", "depart_field", depart_field(visitor, Cur))

VisitFieldName ==
    \E a \in TermAttrs :
        LET node == Node("field_name", a)
        IN  Enter("visit_field_name", node, visit_field_name(visitor, node))

DepartFieldName == Leave("field_name", "depart_field_name", depart_field_name(visitor, Cur))

VisitFieldBody ==
    LET node == Node("field_body", NoAttrs)
    IN  Enter("visit_field_body", node, visit_field_body(visitor, node))

DepartFieldBody == Leave("field_body", "depart_field_body", depart_field_body(visitor, Cur))

VisitParagraph ==
    LET node == Node("paragraph", NoAttrs)
    IN  Enter("visit_paragraph", node, visit_paragraph(visitor, node))

DepartParagraph == Leave("paragraph", "depart_paragraph", depart_paragraph(visitor, Cur))

VisitFigure ==
    \E a \in FigureAttrs :
        LET node == Node("figure", a)
        IN  Enter("visit_figure", node, visit_figure(visitor, node))

DepartFigure == Leave("figure", "depart_figure", depart_figure(visitor, Cur))

VisitImage ==
    \E a \in ImageAttrs :
        LET node == Node("image", a)
        IN  Enter("visit_image", node, visit_image(visitor, node))

DepartImage == Leave("image", "depart_image", depart_image(visitor, Cur))

VisitTarget ==
    \E a \in TargetAttrs :
        LET node == Node("target", a)
        IN  Enter("visit_target", node, visit_target(visitor, node))

DepartTarget == Leave("target", "depart_target", depart_target(visitor, Cur))

VisitCaption ==
    LET node == Node("caption", NoAttrs)
    IN  Enter("visit_caption", node, visit_caption(visitor, node))

DepartCaption == Leave("caption", "depart_caption", depart_caption(visitor, Cur))

VisitReference ==
    \E a \in ReferenceAttrs :
        LET node == Node("reference", a)
        IN  Enter("visit_reference", node, visit_reference(visitor, node))

DepartReference == Leave("reference", "depart_reference", depart_reference(visitor, Cur))

VisitIndex ==
    \E a \in IndexAttrs :
        LET node == Node("index", a)
        IN  Enter("visit_index", node, visit_index(visitor, node))

VisitHighlightlang ==
    \E a \in HighlightAttrs :
        LET node == Node("highlightlang", a)
        IN  Enter("visit_highlightlang", node, visit_highlightlang(visitor, node))

VisitProductionlist ==
    LET node == Node("productionlist", NoAttrs)
    IN  Enter("visit_productionlist", node, visit_productionlist(visitor, node))

DepartProductionlist ==
    Leave("productionlist", "depart_productionlist", depart_productionlist(visitor, Cur))

VisitProduction ==
    \E a \in ProductionAttrs :
        LET node == Node("production", a)
        IN  Enter("visit_production", node, visit_production(visitor, node))

DepartProduction == Leave("production", "depart_production", depart_production(visitor, Cur))

VisitLineBlock ==
    LET node == Node("line_block", NoAttrs)
    IN  Enter("visit_line_block", node, visit_line_block(visitor, node))

DepartLineBlock == Leave("line_block", "depart_line_block", depart_line_block(visitor, Cur))

VisitLine ==
    LET node == Node("line", NoAttrs)
    IN  Enter("visit_line", node, visit_line(visitor, node))

DepartLine == Leave("line", "depart_line", depart_line(visitor, Cur))

VisitLegend ==
    LET node == Node("legend", NoAttrs)
    IN  Enter("visit_legend", node, visit_legend(visitor, node))

DepartLegend == Leave("legend", "depart_legend", depart_legend(visitor, Cur))

VisitCitation ==
    LET node == Node("citation", NoAttrs)
    IN  Enter("visit_citation", node, visit_citation(visitor, node))

DepartCitation == Leave("citation", "depart_citation", depart_citation(visitor, Cur))

VisitLiteralBlock ==
    \E a \in LiteralAttrs \cap bound.literal :
        LET node == Node("literal_block", a)
        IN  Enter("visit_literal_block", node, visit_literal_block(visitor, node))

DepartLiteralBlock == Leave("literal_block", "depart_literal_block", depart_literal_block(visitor, Cur))

VisitDoctestBlock ==
    \E a \in {PlainLiteral} :
        LET node == Node("doctest_block", a)
        IN  Enter("visit_doctest_block", node, visit_doctest_block(visitor, node))

DepartDoctestBlock == Leave("doctest_block", "depart_doctest_block", depart_doctest_block(visitor, Cur))

VisitOption ==
    LET node == Node("option", NoAttrs)
    IN  Enter("visit_option", node, visit_option(visitor, node))

DepartOption == Leave("option", "depart_option", depart_option(visitor, Cur))

VisitOptionGroup ==
    LET node == Node("option_group", NoAttrs)
    IN  Enter("visit_option_group", node, visit_option_group(visitor, node))

DepartOptionGroup == Leave("option_group", "depart_option_group", depart_option_group(visitor, Cur))

VisitOptionList ==
    LET node == Node("option_list", NoAttrs)
    IN  Enter("visit_option_list", node, visit_option_list(visitor, node))

DepartOptionList == Leave("option_list", "depart_option_list", depart_option_list(visitor, Cur))

VisitOptionListItem ==
    LET node == Node("option_list_item", NoAttrs)
    IN  Enter("visit_option_list_item", node, visit_option_list_item(visitor, node))

DepartOptionListItem == Leave("option_list_item", "depart_option_list_item", depart_option_list_item(visitor, Cur))

VisitOptionString ==
    LET node == Node("option_string", NoAttrs)
    IN  Enter("visit_option_string", node, visit_option_string(visitor, node))

DepartOptionString == Leave("option_string", "depart_option_string", depart_option_string(visitor, Cur))

VisitText ==
    \E t \in TextVals \cup CodeVals \cup LineVals :
        /\ path # <<>>
        /\ t \in (CASE Last(path).node.kind \in {"literal_block", "doctest_block"} -> CodeVals
                    [] Last(path).node.kind = "line" -> LineVals
                    [] OTHER -> TextVals)
        /\ LET node == Node("Text", [astext |-> t])
           IN  Enter("visit_Text", node, visit_Text(visitor, node))

DepartText == Leave("Text", "depart_Text", depart_Text(visitor, Cur))

VisitDesc ==
    \E a \in DescAttrs :
        /\ a \in bound.desc
        /\ LET node == Node("desc", a)
           IN  Enter("visit_desc", node, visit_desc(visitor, node))

DepartDesc == Leave("desc", "depart_desc", depart_desc(visitor, Cur))

VisitDescSignature ==
    \E a \in SignatureAttrs :
        /\ path # <<>>
        /\ Last(path).node.kind = "desc"
        /\ LET node == Node("desc_signature",
                            a @@ [parent_desctype |-> Last(path).node.desctype])
           IN  Enter("visit_desc_signature", node, visit_desc_signature(visitor, node))

DepartDescSignature ==
    Leave("desc_signature", "depart_desc_signature", depart_desc_signature(visitor, Cur))

VisitDescType ==
    \E a \in PartAttrs :
        LET node == Node("desc_type", a)
        IN  Enter("visit_desc_type", node, visit_desc_type(visitor, node))

VisitDescName ==
    \E a \in PartAttrs :
        LET node == Node("desc_name", a)
        IN  Enter("visit_desc_name", node, visit_desc_name(visitor, node))

VisitDescAddname ==
    \E a \in PartAttrs :
        LET node == Node("desc_addname", a)
        IN  Enter("visit_desc_addname", node, visit_desc_addname(visitor, node))

VisitDescParameterlist ==
    \E a \in PartAttrs :
        LET node == Node("desc_parameterlist", a)
        IN  Enter("visit_desc_parameterlist", node, visit_desc_parameterlist(visitor, node))

VisitDescAnnotation ==
    \E a \in PartAttrs :
        LET node == Node("desc_annotation", a)
        IN  Enter("visit_desc_annotation", node, visit_desc_annotation(visitor, node))

VisitDescContent ==
    \E a \in DescContentAttrs :
        LET node == Node("desc_content", a)
        IN  Enter("visit_desc_content", node, visit_desc_content(visitor, node))

DepartDescContent ==
    Leave("desc_content", "depart_desc_content", depart_desc_content(visitor, Cur))

VisitUnknown ==
    \E k \in UnknownKinds :
        LET node == Node(k, NoAttrs)
        IN  Enter("unknown_visit", node, unknown_visit(visitor, node))

\* The node kinds that push on the context stack, and the containers the
\* document model puts them in.
TableKinds == {"table", "tgroup", "colspec", "thead", "tbody", "row", "entry"}
OptionKinds ==
    {"option_list", "option_list_item", "option_group", "option", "option_string"}
TermKinds ==
    {"definition_list", "definition_list_item", "term", "definition",
     "field_list", "field", "field_name", "field_body"}
ProseKinds ==
    {"section", "topic", "seealso", "title", "rubric", "figure", "caption", "reference",
     "paragraph"}
\* The walk of the trees built from the node kinds that use the context
\* stack: small trees of sections, figures and references and of lists of
\* terms and fields, and larger ones of table cells with what they hold and
\* of option lists.
Init ==
    \/ InitFor(MaxNodes, {"document", "Text"} \cup ProseKinds \cup UnknownKinds)
    \/ InitFor(MaxNodes,
               {"document", "citation", "label", "paragraph"} \cup TermKinds \cup UnknownKinds)
    \/ InitFor(MaxDeepNodes,
               {"document", "figure", "caption"} \cup (TableKinds \ {"colspec"}))
    \/ InitFor(MaxDeepNodes, {"document", "citation", "label"} \cup OptionKinds)

Next ==
    \/ VisitDocument \/ DepartDocument
    \/ VisitSection \/ DepartSection
    \/ VisitTopic \/ DepartTopic
    \/ VisitSeealso \/ DepartSeealso
    \/ VisitTitle \/ DepartTitle
    \/ VisitRubric \/ DepartRubric
    \/ VisitTable \/ DepartTable
    \/ VisitTgroup \/ DepartTgroup
    \/ VisitThead \/ DepartThead
    \/ VisitTbody \/ DepartTbody
    \/ VisitRow \/ DepartRow
    \/ VisitEntry \/ DepartEntry
    \/ VisitDefinitionList \/ DepartDefinitionList
    \/ VisitDefinitionListItem \/ DepartDefinitionListItem
    \/ VisitTerm \/ DepartTerm
    \/ VisitDefinition \/ DepartDefinition
    \/ VisitFieldList \/ DepartFieldList
    \/ VisitField \/ DepartField
    \/ VisitFieldName \/ DepartFieldName
    \/ VisitFieldBody \/ DepartFieldBody
    \/ VisitFigure \/ DepartFigure
    \/ VisitCaption \/ DepartCaption
    \/ VisitReference \/ DepartReference
    \/ VisitCitation \/ DepartCitation
    \/ VisitLabel
    \/ VisitParagraph \/ DepartParagraph
    \/ VisitOptionList \/ DepartOptionList
    \/ VisitOptionListItem \/ DepartOptionListItem
    \/ VisitOptionGroup \/ DepartOptionGroup
    \/ VisitOption \/ DepartOption
    \/ VisitOptionString \/ DepartOptionString
    \/ VisitText \/ DepartText
    \/ VisitUnknown

Spec == Init /\ [][Next]_vars

\* The walk of the trees that hold tables and literal blocks: tables with
\* their column definitions and the directives before them, tables with
\* columns, cells and the literal blocks in them, literal blocks with their
\* text in and out of a table, literal blocks in tables after a directive,
\* and the literal blocks of code-block directives.
InitTable ==
    \/ InitFor(MaxDeepNodes, {"document", "tabular_col_spec"} \cup (TableKinds \ {"row", "entry"}))
    \/ InitFor(MaxCellNodes, {"document", "literal_block"} \cup (TableKinds \ {"thead"}))
    \/ InitFor(MaxDeepNodes,
               {"document", "literal_block", "doctest_block", "Text"}
               \cup (TableKinds \ {"thead", "colspec"}))
    \/ InitFor(MaxDeepNodes,
               {"document", "tabular_col_spec", "literal_block"}
               \cup (TableKinds \ {"thead", "colspec"}))
    \/ InitOf(MaxDeepNodes,
              {"document", "literal_block", "Text"} \cup (TableKinds \ {"thead", "colspec"}),
              {CodeBlock})

NextTable ==
    \/ VisitDocument \/ DepartDocument
    \/ VisitTabularColSpec
    \/ VisitTable \/ DepartTable
    \/ VisitColspec \/ DepartColspec
    \/ VisitTgroup \/ DepartTgroup
    \/ VisitThead \/ DepartThead
    \/ VisitTbody \/ DepartTbody
    \/ VisitRow \/ DepartRow
    \/ VisitEntry \/ DepartEntry
    \/ VisitLiteralBlock \/ DepartLiteralBlock
    \/ VisitDoctestBlock \/ DepartDoctestBlock
    \/ VisitText \/ DepartText

SpecTable == InitTable /\ [][NextTable]_vars

\* The walk of the trees that hold citations: documents, with the documents
\* of their appendices, and citations with their labels and paragraphs.
InitBib ==
    InitFor(MaxDeepNodes, {"document", "citation", "label", "paragraph", "Text"})

NextBib ==
    \/ VisitDocument \/ DepartDocument
    \/ VisitCitation \/ DepartCitation
    \/ VisitLabel
    \/ VisitParagraph \/ DepartParagraph
    \/ VisitText \/ DepartText

SpecBib == InitBib /\ [][NextBib]_vars

\* The kinds of the parts of a signature.
PartKinds ==
    {"desc_type", "desc_name", "desc_addname", "desc_parameterlist", "desc_annotation"}

\* An object of the given description type, to be indexed or not.
Object(desctype, noindex) == [desctype |-> desctype, noindex |-> noindex]

\* The walk of the trees that hold described objects: objects of every
\* description type with their signatures and the parts of these, objects
\* described inside the content of another, and objects described in the
\* legend of a figure.
InitDescribed ==
    \/ InitDesc(MaxNodes, {"document", "desc", "desc_signature"} \cup PartKinds,
                {Object(t, FALSE) : t \in DescTypes}
                \cup {Object("function", TRUE), Object("envvar", TRUE)})
    \/ InitDesc(MaxNestedNodes,
                {"document", "desc", "desc_signature", "desc_content", "desc_name",
                 "desc_addname"},
                {Object("method", FALSE), Object("describe", TRUE)})
    \/ InitDesc(MaxLegendNodes,
                {"document", "figure", "legend", "desc", "desc_signature", "desc_name",
                 "desc_annotation"},
                {Object("attribute", TRUE)})

NextDesc ==
    \/ VisitDocument \/ DepartDocument
    \/ VisitDesc \/ DepartDesc
    \/ VisitDescSignature \/ DepartDescSignature
    \/ VisitDescType
    \/ VisitDescName
    \/ VisitDescAddname
    \/ VisitDescParameterlist
    \/ VisitDescAnnotation
    \/ VisitDescContent \/ DepartDescContent
    \/ VisitFigure \/ DepartFigure
    \/ VisitLegend \/ DepartLegend

SpecDesc == InitDescribed /\ [][NextDesc]_vars

\* The walk of the trees built from the node kinds that set the mode flags
\* of the translator: sections and their titles, literal and doctest blocks
\* and the highlightlang directive, line blocks, production lists, with
\* the paragraphs between them.
InitModes ==
    \/ InitFor(MaxNodes,
               {"document", "section", "title", "paragraph", "Text", "highlightlang",
                "literal_block", "doctest_block", "line_block", "line"})
    \/ InitFor(MaxNodes,
               {"document", "productionlist", "production", "reference", "Text",
                "line_block", "line"})

NextModes ==
    \/ VisitDocument \/ DepartDocument
    \/ VisitSection \/ DepartSection
    \/ VisitTitle \/ DepartTitle
    \/ VisitHighlightlang
    \/ VisitParagraph \/ DepartParagraph
    \/ VisitLiteralBlock \/ DepartLiteralBlock
    \/ VisitDoctestBlock \/ DepartDoctestBlock
    \/ VisitLineBlock \/ DepartLineBlock
    \/ VisitLine \/ DepartLine
    \/ VisitProductionlist \/ DepartProductionlist
    \/ VisitProduction \/ DepartProduction
    \/ VisitReference \/ DepartReference
    \/ VisitText \/ DepartText

SpecModes == InitModes /\ [][NextModes]_vars

\* The walk of the trees built from the node kinds whose hooks warn: titles
\* of documents, of the documents of appendices and of tables, with the
\* references in them, and references in paragraphs and index nodes.
InitWarn ==
    \/ InitFor(MaxNestedNodes,
               {"document", "title", "reference", "Text", "table", "tgroup", "tbody"})
    \/ InitFor(MaxNodes, {"document", "paragraph", "reference", "index", "Text"})

NextWarn ==
    \/ VisitDocument \/ DepartDocument
    \/ VisitTitle \/ DepartTitle
    \/ VisitParagraph \/ DepartParagraph
    \/ VisitReference \/ DepartReference
    \/ VisitIndex
    \/ VisitTable \/ DepartTable
    \/ VisitTgroup \/ DepartTgroup
    \/ VisitTbody \/ DepartTbody
    \/ VisitText \/ DepartText

SpecWarn == InitWarn /\ [][NextWarn]_vars

\* ------------------------------------------------------ the context stack

\* The last hook returned normally and took one entry off the context stack.
Popped == ev.exc = None /\ Len(visitor.context) = Len(ev.pre.context) - 1

\* The fragments of the active buffer before and after the last hook.
BodyBefore == ev.pre.heap[ev.pre.body]
BodyAfter == visitor.heap[visitor.body]

\* C1: the context stack is empty before the first node is visited and
\* empty again when the traversal of a well-formed tree has completed:
\* as many entries were popped as were pushed.
C1_ContextBalanced ==
    /\ nvisited = 0 => visitor.context = <<>> /\ count.push = 0
    /\ pc = "done" => visitor.context = <<>> /\ count.push = count.pop

\* A traversal that pushed entries has completed.
C1_Witness == pc = "done" /\ count.push >= 2

\* The option nodes visited since the node of the last hook.
OptionsSince == Cardinality({i \in ev.node.id + 1 .. nvisited : log[i].kind = "option"})

\* C2: the entries of the context stack belong to the open nodes that
\* pushed them, innermost last; the exit-hook of such a node pops exactly
\* one entry, the one its own enter-hook pushed (for an option group with
\* its counter advanced by the options seen since), and an enter-hook
\* that skips its node leaves the stack as it was.
C2_LIFO ==
    /\ Len(owners) = Len(visitor.context)
    /\ \A i \in 1 .. Len(owners) :
         /\ \E j \in 1 .. Len(path) : path[j].node.id = owners[i].id
         /\ \A k \in 1 .. i - 1 : owners[k].id < owners[i].id
    /\ Popped =>
         /\ Last(ev.powners).id = ev.node.id
         /\ ev.phase = "depart"
         /\ visitor.context = Front(ev.pre.context)
         /\ IF ev.hook = "depart_option_group"
              THEN Last(ev.pre.context) = PyInt(Last(ev.powners).entry.v + OptionsSince)
              ELSE Last(ev.pre.context) = Last(ev.powners).entry
    /\ ( /\ ev.phase = "depart"
         /\ ev.exc = None
         /\ \E i \in 1 .. Len(ev.powners) : ev.powners[i].id = ev.node.id ) => Popped
    /\ ev.exc = "SkipNode" => visitor.context = ev.pre.context

\* A node has popped its entry while an outer node's entry stayed below, and
\* a skipped node came before it.
C2_Witness ==
    /\ Popped
    /\ Len(visitor.context) >= 1
    /\ \E i \in 1 .. nvisited : log[i].kind = "rubric" /\ log[i].astext = "Footnotes"

\* C3 as stated: every exit-hook that pops an entry appends the popped value
\* to the active buffer.
C3_Original ==
    Popped =>
        /\ Last(ev.pre.context).t = "str"
        /\ BodyAfter = Append(BodyBefore, Last(ev.pre.context).v)

\* C3: every exit-hook that pops an entry appends the popped value to the
\* active buffer, but for two: depart_citation cuts the active buffer back
\* to the length it popped, and depart_option_group drops the counter it
\* popped and appends the closing of the item label.
C3_PoppedValueUsed ==
    Popped =>
        /\ visitor.body = ev.pre.body
        /\ IF ev.hook = "depart_citation"
              THEN /\ Last(ev.pre.context).t = "int"
                   /\ Last(ev.pre.context).v <= Len(BodyBefore)
                   /\ BodyAfter = SubSeq(BodyBefore, 1, Last(ev.pre.context).v)
            ELSE IF ev.hook = "depart_option_group"
              THEN /\ Last(ev.pre.context).t = "int"
                   /\ BodyAfter = Append(BodyBefore, "] ")
            ELSE /\ Last(ev.pre.context).t = "str"
                 /\ BodyAfter = Append(BodyBefore, Last(ev.pre.context).v)

\* An exit-hook has appended the non-empty closer it popped.
C3_Witness ==
    /\ Popped
    /\ ev.hook \notin {"depart_citation", "depart_option_group"}
    /\ Last(ev.pre.context).v # ""
    /\ BodyAfter = Append(BodyBefore, Last(ev.pre.context).v)

\* C4: a node of a class the translator has no handler for ends the
\* traversal with a not-implemented error naming it: its dispatch raises,
\* changes nothing, and no hook is called after an error.
C4_UnknownAborts ==
    /\ [](ev.hook = "unknown_visit" =>
            /\ ev.exc = "NotImplementedError"
            /\ pc = "error"
            /\ ev.node.kind \in UnknownKinds
            /\ ev.node.id = nvisited
            /\ visitor = ev.pre)
    /\ [][pc # "error"]_vars

\* A node of an unknown class was met after other nodes had produced output.
C4_Witness ==
    /\ ev.hook = "unknown_visit"
    /\ pc = "error"
    /\ nvisited >= 3
    /\ Len(visitor.heap.main) >= 2

\* ------------------------------------------------------------- the tables

\* The last hook was called for a table inside a table.
NestedTable == ev.hook = "visit_table" /\ ev.pre.table # NoneObj

\* C5: the enter-hook of a table met while another table is being built
\* raises a not-implemented error and changes nothing: the main buffer is
\* as it was when the outer table was entered, and the fragments of the
\* outer table are still in the table buffer.
C5_NestedTableFails ==
    NestedTable =>
        /\ ev.exc = "NotImplementedError"
        /\ pc = "error"
        /\ visitor = ev.pre
        /\ \A j \in 1 .. Len(path) :
             path[j].node.kind = "table" => visitor.heap.main = path[j].at.heap.main

\* A table was met inside a cell of a table that had buffered fragments.
C5_Witness ==
    /\ NestedTable
    /\ pc = "error"
    /\ Len(visitor.heap.tbl) >= 1
    /\ Len(visitor.heap.main) >= 1

\* The last hook was called for a cell that spans rows or columns.
SpanningEntry == ev.hook = "visit_entry" /\ (ev.node.morerows \/ ev.node.morecols)

\* C6: the enter-hook of a cell that spans rows or columns raises a
\* not-implemented error before it does anything else: no separator is
\* emitted, the column cursor is not advanced and no closer is pushed.
C6_SpanningEntryFails ==
    SpanningEntry =>
        /\ ev.exc = "NotImplementedError"
        /\ pc = "error"
        /\ visitor = ev.pre

\* A spanning cell was met after another cell of its row.
C6_Witness == SpanningEntry /\ ev.pre.table.col >= 1 /\ pc = "error"

\* The nodes of the given kinds visited inside the node of the last hook.
Inside(kinds) == {i \in ev.node.id + 1 .. nvisited : log[i].kind \in kinds}
NColspec == Cardinality(Inside({"colspec"}))
HasVerbatim == Inside({"literal_block", "doctest_block"}) # {}

\* The spec of the tabular_col_spec node that is pending when the table of
\* the last hook is entered: the last one visited with no table since.
Pending ==
    LET t  == ev.node.id
        ds == {d \in 1 .. t - 1 :
                 /\ log[d].kind = "tabular_col_spec"
                 /\ \A j \in d + 1 .. t - 1 : log[j].kind # "table"}
    IN  IF ds = {} THEN None
        ELSE log[CHOOSE d \in ds : \A e \in ds : e <= d].spec

\* What depart_table has appended to the main buffer: the opening wrapper,
\* the column spec, the fragments of the table, the closing wrapper.
Emitted ==
    SubSeq(visitor.heap.main, Len(ev.pre.heap.main) + 1, Len(visitor.heap.main))
Opening == Emitted[1]
ColumnSpec == Emitted[2]
Closing == Last(Emitted)

\* The column specs of n columns: flexible ones, fixed ones of one width.
FlexColumns(n) == "{|" \o Rep("L|", n) \o "}\n"
FixedColumns(n, w) == "{|" \o Rep("p{" \o w \o "\\textwidth}|", n) \o "}\n"
Widths == {colwidth(n) : n \in 1 .. 20}
Synthesized(n) == {FlexColumns(n)} \cup {FixedColumns(n, w) : w \in Widths}

\* The wrappers that name the same environment.
Wrappers ==
    { <<"\n\\begin{tabular}", "\\end{tabular}\n\n">>,
      <<"\n\\begin{tabulary}{\\textwidth}", "\\end{tabulary}\n\n">> }

\* C7 as stated: the opening wrapper of every table lists as many columns
\* as colspec nodes were visited inside the table, and the closing wrapper
\* names the environment of the opening wrapper.
C7_Original ==
    ev.hook = "depart_table" =>
        /\ ev.exc = None
        /\ ColumnSpec \in Synthesized(NColspec)
        /\ <<Opening, Closing>> \in Wrappers

\* C7: when no tabular_col_spec node is pending for it, the column spec of
\* a table lists as many columns as colspec nodes were visited inside the
\* table; when one is pending the column spec is its text, whatever the
\* number of colspec nodes; the closing wrapper names the environment of
\* the opening wrapper.  The one table that gets no column spec and no
\* closing wrapper is the table with a literal block, no colspec node and
\* no pending spec: depart_table raises after the opening wrapper.
C7_ColumnsAndWrapper ==
    ev.hook = "depart_table" =>
        IF HasVerbatim /\ NColspec = 0 /\ Pending = None
          THEN /\ ev.exc = "ZeroDivisionError"
               /\ Emitted = <<"\n\\begin{tabular}">>
          ELSE /\ ev.exc = None
               /\ <<Opening, Closing>> \in Wrappers
               /\ IF Pending = None THEN ColumnSpec \in Synthesized(NColspec)
                  ELSE ColumnSpec = "{" \o Pending \o "}\n"

\* A table of two columns and a table with a pending spec have been closed.
C7_Witness ==
    /\ ev.hook = "depart_table"
    /\ ev.exc = None
    /\ \/ NColspec = 2 /\ Pending = None /\ HasVerbatim
       \/ NColspec = 1 /\ Pending # None

\* C8 as stated: with no explicit column spec, a table with a literal block
\* gets the tabular wrapper and one fixed-width column of 0.95 / colcount of
\* the text width for each colspec node, and a table without one gets the
\* tabulary wrapper and one flexible column for each colspec node.
C8_Original ==
    (ev.hook = "depart_table" /\ Pending = None) =>
        /\ ev.exc = None
        /\ IF HasVerbatim
             THEN /\ <<Opening, Closing>> = <<"\n\\begin{tabular}", "\\end{tabular}\n\n">>
                  /\ ColumnSpec = FixedColumns(NColspec, colwidth(NColspec))
             ELSE /\ <<Opening, Closing>>
                       = <<"\n\\begin{tabulary}{\\textwidth}", "\\end{tabulary}\n\n">>
                  /\ ColumnSpec = FlexColumns(NColspec)

\* The table that C8 fails for has been left: a literal block in it, no
\* colspec node, no spec pending.
C8_Witness ==
    /\ ev.hook = "depart_table"
    /\ HasVerbatim
    /\ NColspec = 0
    /\ Pending = None
    /\ ev.exc = "ZeroDivisionError"
    /\ pc = "error"

\* C8 for the tables with a colspec node or without a literal block.
C8_WithColumns ==
    (ev.hook = "depart_table" /\ Pending = None /\ ~(HasVerbatim /\ NColspec = 0)) =>
        /\ ev.exc = None
        /\ IF HasVerbatim
             THEN /\ <<Opening, Closing>> = <<"\n\\begin{tabular}", "\\end{tabular}\n\n">>
                  /\ ColumnSpec = FixedColumns(NColspec, colwidth(NColspec))
             ELSE /\ <<Opening, Closing>>
                       = <<"\n\\begin{tabulary}{\\textwidth}", "\\end{tabulary}\n\n">>
                  /\ ColumnSpec = FlexColumns(NColspec)

\* ----------------------------------------------------- the literal blocks

\* The text of the Text nodes with ids from i on, in the order of the visit.
RECURSIVE TextFrom(_)
TextFrom(i) ==
    IF i > nvisited THEN <<>>
    ELSE (IF log[i].kind = "Text" THEN log[i].astext ELSE <<>>) \o TextFrom(i + 1)

\* The block the highlighter makes of the code in the environment env, its
\* last line closed by one line break.
Highlighted(env, code) ==
    "\n\\begin{" \o env \o "}"
    \o (IF ev.node.has_linenos /\ ev.node.linenos
          THEN "[commandchars=@\\[\\],numbers=left]" ELSE "[commandchars=@\\[\\]]")
    \o (IF code = <<>> THEN "" ELSE "\n" \o Join(code))
    \o "\n\\end{" \o env \o "}\n"

LiteralDeparted == ev.hook \in {"depart_literal_block", "depart_doctest_block"}

\* C9: a literal or doctest block that ends while a table is being built
\* marks the table as holding verbatim material and goes to the buffer in
\* the OriginalVerbatim environment, in the opening and in the closing
\* marker; one that ends outside a table goes to the buffer in the Verbatim
\* environment and leaves the table state alone.
C9_VerbatimEnvironment ==
    LiteralDeparted =>
        /\ ev.exc = None
        /\ IF \E j \in 1 .. Len(path) : path[j].node.kind = "table"
             THEN /\ visitor.table = [ev.pre.table EXCEPT !.has_verbatim = TRUE]
                  /\ BodyAfter = Append(BodyBefore,
                         Highlighted("OriginalVerbatim", rstrip_nl(TextFrom(ev.node.id))))
             ELSE /\ visitor.table = NoneObj
                  /\ ev.pre.table = NoneObj
                  /\ BodyAfter = Append(BodyBefore,
                         Highlighted("Verbatim", rstrip_nl(TextFrom(ev.node.id))))
        /\ visitor.next_table_colspec = ev.pre.next_table_colspec
        /\ visitor.tablebody = ev.pre.tablebody
        /\ visitor.body = ev.pre.body

\* A literal block with text has ended in a table that held none before.
C9_Witness ==
    /\ LiteralDeparted
    /\ ev.pre.table # NoneObj
    /\ ~ev.pre.table.has_verbatim
    /\ visitor.table.has_verbatim
    /\ ev.node.has_linenos
    /\ TextFrom(ev.node.id) # <<>>

\* ------------------------------------------------- the explicit column spec

\* The last hook entered the first row group of a table: its header, or its
\* body when it has no header.
FirstGroupEntered ==
    /\ ev.phase = "visit"
    /\ ev.node.kind \in {"thead", "tbody"}
    /\ ~\E i \in path[Len(path) - 2].node.id + 1 .. ev.node.id - 1 :
           log[i].kind \in {"thead", "tbody"}

\* C10: a tabular_col_spec node makes its spec the pending one; the pending
\* spec is cleared when the first row group of a table is entered; a table
\* entered with a spec pending gets that spec's text as its column spec, and
\* a table entered with none pending gets no explicit one: a spec applies
\* to one table at most.
C10_ExplicitColumnSpec ==
    /\ ev.hook = "visit_tabular_col_spec" =>
         ev.exc = "SkipNode" /\ visitor.next_table_colspec = ev.node.spec
    /\ FirstGroupEntered => visitor.next_table_colspec = None
    /\ (ev.hook = "depart_table" /\ Pending # None) =>
         /\ ev.exc = None
         /\ ColumnSpec = "{" \o Pending \o "}\n"
    /\ (ev.hook = "depart_table" /\ Pending = None /\ ev.exc = None) =>
         ColumnSpec \notin {"{" \o spec \o "}\n" : spec \in ColSpecs}

\* A table with no spec pending was closed after a table that had one.
C10_Witness ==
    /\ ev.hook = "depart_table"
    /\ ev.exc = None
    /\ Pending = None
    /\ \E i \in 1 .. Len(visitor.heap.main) :
         visitor.heap.main[i] \in {"{" \o spec \o "}\n" : spec \in ColSpecs}

\* --------------------------------------------------------- the table buffer

\* The column specs depart_table can emit.
ColumnSpecs ==
    UNION {Synthesized(n) : n \in 0 .. MaxCellNodes + 1}
    \cup {"{" \o spec \o "}\n" : spec \in ColSpecs}

\* While a table is being built the table buffer is the active one and the
\* main buffer is as it was when the table was entered.
Redirected ==
    /\ (ev.pre.table # NoneObj /\ ev.hook # "depart_table") =>
         /\ ev.pre.body = "tbl"
         /\ visitor.body = "tbl"
         /\ visitor.heap.main = ev.pre.heap.main
    /\ (ev.hook = "visit_table" /\ ev.exc = None) =>
         /\ visitor.body = "tbl"
         /\ visitor.heap.tbl = <<>>
         /\ visitor.heap.main = ev.pre.heap.main
    /\ \A j \in 1 .. Len(path) :
         (path[j].node.kind = "table" /\ ev.hook # "depart_table") =>
             visitor.heap.main = path[j].at.heap.main

\* depart_table has made the main buffer the active one again, has appended
\* to it the opening wrapper, the column spec, the fragments of the table
\* buffer in their order and the closing wrapper, and has discarded the table.
Flushed ==
    /\ ev.exc = None
    /\ visitor.body = "main"
    /\ visitor.table = NoneObj
    /\ visitor.tablebody = None
    /\ Len(Emitted) = Len(ev.pre.heap.tbl) + 3
    /\ <<Opening, Closing>> \in Wrappers
    /\ ColumnSpec \in ColumnSpecs
    /\ SubSeq(Emitted, 3, Len(Emitted) - 1) = ev.pre.heap.tbl
    /\ SubSeq(visitor.heap.main, 1, Len(ev.pre.heap.main)) = ev.pre.heap.main

\* C11 as stated: between visit_table and depart_table the main buffer is
\* left unchanged and every fragment goes to the table buffer; depart_table
\* makes the main buffer active again, appends to it the opening wrapper,
\* the column spec, the buffered fragments in their order and the closing
\* wrapper, and discards the table state.
C11_Original == Redirected /\ (ev.hook = "depart_table" => Flushed)

\* The table that C11 fails for has been left: depart_table has raised after
\* the opening wrapper, with the fragments of the table still buffered and
\* the table state still there.
C11_Witness ==
    /\ ev.hook = "depart_table"
    /\ ev.exc = "ZeroDivisionError"
    /\ visitor.heap.main = Append(ev.pre.heap.main, "\n\\begin{tabular}")
    /\ visitor.heap.tbl = ev.pre.heap.tbl
    /\ Len(visitor.heap.tbl) >= 3
    /\ visitor.table # NoneObj

\* C11 for the tables with a colspec node, a pending spec or no literal block.
C11_OtherTables ==
    /\ Redirected
    /\ (ev.hook = "depart_table" /\ ~(HasVerbatim /\ NColspec = 0 /\ Pending = None)) => Flushed

\* ------------------------------------------------------ the inferred header

\* The last hook entered a body row group of a table in which no header row
\* group was met before it.
BodyEntered ==
    /\ ev.hook = "visit_tbody"
    /\ ~\E i \in path[Len(path) - 2].node.id + 1 .. ev.node.id - 1 : log[i].kind = "thead"

\* The body row groups of that table met before this one.
BodiesBefore ==
    {i \in path[Len(path) - 2].node.id + 1 .. ev.node.id - 1 : log[i].kind = "tbody"}

\* The rules in a buffer.
Rules(buf) == Cardinality({i \in 1 .. Len(buf) : buf[i] = "\\hline\n"})

\* C12: in a table with no header row group the first body row group is
\* taken as the header: entering it emits the opening rule and marks the
\* table as having had a header; entering a later body row group of the
\* table changes nothing; so the table holds one opening rule, next to the
\* closing rule of each of its body row groups.
C12_HeaderInferred ==
    /\ (BodyEntered /\ BodiesBefore = {}) =>
         /\ ev.exc = None
         /\ ~ev.pre.table.had_head
         /\ visitor.table.had_head
         /\ body(visitor) = Append(body(ev.pre), "\\hline\n")
    /\ (BodyEntered /\ BodiesBefore # {}) =>
         /\ ev.exc = None
         /\ ev.pre.table.had_head
         /\ visitor = ev.pre
    /\ (ev.hook = "depart_table" /\ Inside({"thead"}) = {}) =>
         Rules(ev.pre.heap.tbl) = 1 + Cardinality(Inside({"tbody"}))

\* The second body row group of a table with no header was entered.
C12_Witness ==
    /\ BodyEntered
    /\ Cardinality(BodiesBefore) = 1
    /\ Rules(body(visitor)) = 2

\* ----------------------------------------------------------- the citations

\* The label of the citation with id c: the text of its label child.
LabelOf(c) ==
    IF c + 1 <= spans[c].upto /\ log[c + 1].kind = "label" THEN log[c + 1].astext ELSE ""

\* What the citations among the nodes i .. n of the input have to give: for
\* each, in input order, its label and the concatenation of the fragments
\* emitted between its enter and its exit.
RECURSIVE Citations(_, _)
Citations(i, n) ==
    IF i > n THEN <<>>
    ELSE IF log[i].kind = "citation"
      THEN <<[label |-> LabelOf(i), text |-> Join(spans[i].out)]>> \o Citations(i + 1, n)
      ELSE Citations(i + 1, n)

\* The item of a citation in a bibliography block.
ItemOf(cit) ==
    "\\bibitem[" \o cit.label \o "]{" \o cite_key(cit.label) \o "}{" \o cit.text \o "}\n"

\* The bibliography block of the given citations: one item for each, in
\* order, between the opening sized to one of the labels and the closing.
IsBlock(frags, cits) ==
    /\ Len(frags) = Len(cits) + 2
    /\ \E c \in 1 .. Len(cits) :
         frags[1] = "\n\\begin{thebibliography}{" \o cits[c].label \o "}\n"
    /\ \A c \in 1 .. Len(cits) :
         frags[c + 1] = ItemOf(cits[c])
    /\ Last(frags) = "\\end{thebibliography}\n"

\* After the exit of a citation the active buffer is the one of its enter,
\* with the fragments it had then.
CitationCut ==
    (ev.hook = "depart_citation") =>
        /\ ev.exc = None
        /\ visitor.body = ev.at.body
        /\ body(visitor) = body(ev.at)

\* The id of the last node met when a document other than the one of the
\* last hook was last left.
LastFlush ==
    LET ds == {d \in 1 .. nvisited :
                 log[d].kind = "document" /\ d # ev.node.id /\ spans[d].upto > 0}
    IN  IF ds = {} THEN 0 ELSE spans[CHOOSE d \in ds : \A e \in ds : e <= d].upto

\* C13 as stated: after the exit of a citation the active buffer has the
\* length it had at its enter, and the bibliography emitted at the end of a
\* document with N citations has N items in input order, item i with the
\* label of citation i and the fragments emitted between its enter and exit.
C13_Original ==
    /\ CitationCut
    /\ (pc = "done" /\ Citations(1, nvisited) # <<>>) =>
         IsBlock(Gained(ev.pre, visitor), Citations(1, nvisited))

\* The traversal of a document with a citation and, after it, an appendix
\* has ended: the citation is in the block emitted at the end of the
\* appendix, and the end of the document emits nothing.
C13_Witness ==
    /\ pc = "done"
    /\ Len(Citations(1, nvisited)) = 1
    /\ LastFlush > 0
    /\ visitor = ev.pre
    /\ \E i \in 1 .. Len(visitor.heap.main) :
         visitor.heap.main[i] = "\\end{thebibliography}\n"

\* What holds of every document: the block emitted at the end of a document
\* is the one of the citations met since a document was last left; with no
\* such citation nothing is emitted.
C13_SinceFlush ==
    /\ CitationCut
    /\ (ev.hook = "depart_document") =>
         /\ ev.exc = None
         /\ IF Citations(LastFlush + 1, nvisited) = <<>> THEN visitor = ev.pre
            ELSE IsBlock(Gained(ev.pre, visitor), Citations(LastFlush + 1, nvisited))

\* Two citations with different labels and bodies were flushed at once.
C13_TwoItems ==
    /\ ev.hook = "depart_document"
    /\ LET cits == Citations(LastFlush + 1, nvisited)
       IN  /\ Len(cits) = 2
           /\ cits[1].label # cits[2].label
           /\ cits[1].text # cits[2].text
           /\ cits[1].text # ""

\* -------------------------------------------------------- the bibliography

\* The bibliography blocks in the main buffer.
Blocks ==
    Cardinality({i \in 1 .. Len(visitor.heap.main) :
                   visitor.heap.main[i] = "\\end{thebibliography}\n"})

\* A fragment that is the item of a citation of the input.
IsItem(frag) ==
    \E c \in 1 .. Len(Citations(1, nvisited)) : frag = ItemOf(Citations(1, nvisited)[c])

\* No hook but depart_document takes an entry off self.bibitems or touches
\* an entry other than the last; depart_document empties the list.
AppendOnly ==
    /\ ev.hook # "depart_document" =>
         /\ Len(visitor.bibitems) >= Len(ev.pre.bibitems)
         /\ \A i \in 1 .. Len(ev.pre.bibitems) - 1 : visitor.bibitems[i] = ev.pre.bibitems[i]
    /\ ev.hook = "depart_document" => visitor.bibitems = <<>>

\* Every citation of the input has its item once in the output of a whole
\* traversal, in input order.
EachOnce ==
    pc = "done" =>
        SelectSeq(visitor.heap.main, IsItem)
          = [c \in 1 .. Len(Citations(1, nvisited)) |-> ItemOf(Citations(1, nvisited)[c])]

\* C14 as stated: self.bibitems only grows during the traversal and is
\* flushed once: a whole traversal, of several document nodes too, emits one
\* bibliography block at most, and every entry collected is in one item.
C14_Original == AppendOnly /\ EachOnce /\ Blocks <= 1

\* The traversal of a document with a citation before its appendix and one
\* after it has ended with two bibliography blocks.
C14_Witness ==
    /\ pc = "done"
    /\ Blocks = 2
    /\ Len(Citations(1, nvisited)) = 2
    /\ LastFlush > 0

\* What holds of every traversal: the list only grows between two document
\* ends, and every entry collected is in one item of one of the blocks.
C14_EveryEntryOnce == AppendOnly /\ EachOnce

\* ------------------------------------------------- the described objects

\* The described object the last hook belongs to: the node of a desc hook,
\* the parent of a signature that was just left.
Described == IF ev.node.kind = "desc" THEN ev.node ELSE Last(path).node

\* The environment of a described object, from its description type and its
\* noindex flag.
Environment(desc) == desc_map(desc.desctype) \o (IF desc.noindex THEN "ni" ELSE "")

\* The signatures of the described object of the last hook that were left
\* before that hook: they come before the objects described in its content.
SignaturesBefore ==
    {i \in Described.id + 1 .. nvisited :
       /\ log[i].kind = "desc_signature"
       /\ i # ev.node.id
       /\ \A j \in Described.id + 1 .. i : log[j].kind # "desc"}

\* The hypertarget of the signature of the last hook.
Hyper ==
    IF Described.desctype # "describe" /\ ev.node.ids # <<>>
      THEN "\\hypertarget{" \o ev.node.ids[1] \o "}{}" ELSE ""

\* The parts of the given kind met inside the signature of the last hook,
\* as their texts in input order.
RECURSIVE PartsIn(_, _, _)
PartsIn(kinds, i, n) ==
    IF i > n THEN <<>>
    ELSE IF log[i].kind \in kinds THEN <<log[i].astext>> \o PartsIn(kinds, i + 1, n)
    ELSE PartsIn(kinds, i + 1, n)

Parts(kinds) == PartsIn(kinds, ev.node.id + 1, spans[ev.node.id].upto)

\* The units of a text as the translator escapes it outside a line block.
Escaped(text) == [i \in DOMAIN text |-> tex_escape_map(text[i])]

\* The value of a part of a signature whose parts of the given kind have
\* the given texts: the last of them stripped, nothing when there is none.
Part(texts) == IF texts = <<>> THEN <<>> ELSE Escaped(strip(Last(texts)))

\* The texts of all parts of a signature, one after the other.
RECURSIVE Flat(_)
Flat(texts) == IF texts = <<>> THEN <<>> ELSE Escaped(Head(texts)) \o Flat(Tail(texts))

\* The description state that holds what the signature of the last hook
\* supplies, and nothing else.
Supplied ==
    LET env == desc_map(Described.desctype)
    IN  [env |-> env, ni |-> Described.noindex, count |-> 0, annotation |-> <<>>,
         type |-> IF env = "describe" THEN <<>> ELSE Part(Parts({"desc_type"})),
         cls |-> IF env = "describe" THEN <<>>
                 ELSE rstrip_chars(Part(Parts({"desc_addname"})), {"."}),
         name |-> IF env = "describe" THEN Flat(Parts(PartKinds))
                  ELSE Part(Parts({"desc_name"})),
         params |-> IF env = "describe" THEN <<>> ELSE Part(Parts({"desc_parameterlist"}))]

\* C15: a described object with signatures emits one block opening, at the
\* exit of its first signature, one continuation line at the exit of each
\* later signature, and one block closing at its own exit; opening and
\* closing name the environment of the object's description type
\* ('describe' for a type that is not in the lookup), with 'ni' after it
\* for an object not to be indexed.
C15_OneBlock ==
    /\ ev.hook = "depart_desc_signature" =>
         /\ ev.exc = None
         /\ Gained(ev.pre, visitor)
              = << (IF SignaturesBefore = {}
                      THEN "\n\n" \o Hyper \o "\\begin{" \o Environment(Described) \o "}"
                      ELSE "\n" \o Hyper \o "\\" \o env_line(desc_map(Described.desctype))
                           \o "line" \o (IF Described.noindex THEN "ni" ELSE ""))
                   \o t2(Supplied) >>
    /\ ev.hook = "depart_desc" =>
         /\ ev.exc = None
         /\ SignaturesBefore # {}
         /\ Gained(ev.pre, visitor) = << "\\end{" \o Environment(Described) \o "}\n" >>
    /\ ev.hook \in {"visit_desc", "visit_desc_signature"} =>
         ev.exc = None /\ body(visitor) = body(ev.pre)

\* A described object of a type that is not in the lookup, not to be indexed,
\* was left after three signatures.
C15_Witness ==
    /\ ev.hook = "depart_desc"
    /\ ev.node.desctype = "envvar"
    /\ ev.node.noindex
    /\ Cardinality(SignaturesBefore) = 3
    /\ Last(body(visitor)) = "\\end{describeni}\n"

\* The two forms of the start of the line of a signature: the opening of
\* the block and the continuation line.
Heads ==
    { "\n\n" \o Hyper \o "\\begin{" \o Environment(Described) \o "}",
      "\n" \o Hyper \o "\\" \o env_line(desc_map(Described.desctype)) \o "line"
           \o (IF Described.noindex THEN "ni" ELSE "") }

\* C16: nothing passes from a signature to the next one of the same
\* described object: entering a signature empties the type, the container,
\* the name and the parameter list of the description state, and the line
\* emitted at its exit is made of the parts met inside it alone; a part of
\* an earlier signature that this one lacks is not in it, whatever the
\* description type.
C16_NoLeak ==
    /\ ev.hook = "visit_desc_signature" =>
         LET d == Last(visitor.descstack)
         IN  d.type = <<>> /\ d.cls = <<>> /\ d.name = <<>> /\ d.params = <<>>
    /\ ev.hook = "depart_desc_signature" =>
         LET d == Last(ev.pre.descstack)
         IN  /\ d.type = Supplied.type
             /\ rstrip_chars(d.cls, {"."}) = Supplied.cls
             /\ d.name = Supplied.name
             /\ d.params = Supplied.params
             /\ \E head \in Heads : Gained(ev.pre, visitor) = << head \o t2(Supplied) >>

\* A signature with no part was left after a signature of the same object
\* that had an annotation: the annotation is still in the description state
\* and the line has empty arguments.
C16_Witness ==
    /\ ev.hook = "depart_desc_signature"
    /\ Parts(PartKinds) = <<>>
    /\ \E i \in SignaturesBefore :
         \E j \in i + 1 .. spans[i].upto : log[j].kind = "desc_annotation"
    /\ Last(ev.pre.descstack).annotation # <<>>
    /\ Last(body(visitor)) = "\n\\methodline{}{}"

\* The hooks of the parts of a signature.
PartHooks ==
    {"visit_desc_type", "visit_desc_name", "visit_desc_addname",
     "visit_desc_parameterlist", "visit_desc_annotation"}

\* C17: the hook of a part of a signature changes the description state on
\* top of the description stack and nothing else (not the output buffers,
\* not the context stack, not the description states below), leaves the
\* environment, the no-index flag and the count of that state alone, and
\* skips the children of the part.
C17_PartsWriteTopOnly ==
    ev.hook \in PartHooks =>
        LET n == Len(ev.pre.descstack)
        IN  /\ ev.exc = "SkipNode"
            /\ n >= 1
            /\ visitor = [ev.pre EXCEPT !.descstack[n] = visitor.descstack[n]]
            /\ visitor.descstack[n].env = ev.pre.descstack[n].env
            /\ visitor.descstack[n].ni = ev.pre.descstack[n].ni
            /\ visitor.descstack[n].count = ev.pre.descstack[n].count
            /\ spans[ev.node.id].upto = ev.node.id

\* A part was met in an object described in the legend of a figure, with
\* the closer of the figure on the context stack: it changed the description
\* state.
C17_Witness ==
    /\ ev.hook \in PartHooks
    /\ visitor.context # <<>>
    /\ Len(body(visitor)) >= 3
    /\ visitor.descstack # ev.pre.descstack

\* A part was met in an object described in the content of another object.
C17_Nested ==
    /\ ev.hook \in PartHooks
    /\ Len(visitor.descstack) = 2
    /\ visitor.descstack[1].count = 1
    /\ visitor.descstack[2] # ev.pre.descstack[2]

\* ----------------------------------------------------------- the mode flags

\* The mode flags other than the highlighting language have the values they
\* start a traversal with.
FlagsReset ==
    /\ visitor.in_title = LaTeXTranslator.in_title
    /\ visitor.verbatim = LaTeXTranslator.verbatim
    /\ visitor.in_production_list = LaTeXTranslator.in_production_list
    /\ visitor.literal_whitespace = LaTeXTranslator.literal_whitespace
    /\ visitor.sectionlevel = visitor.top_sectionlevel - 1

\* C18 as stated: after the complete traversal of a well-formed tree every
\* mode flag has its initial value: in_title 0, verbatim None,
\* in_production_list 0, literal_whitespace 0, highlightlang the configured
\* language, sectionlevel top_sectionlevel - 1.
C18_Original ==
    pc = "done" => FlagsReset /\ visitor.highlightlang = LaTeXTranslator.highlightlang

\* The traversal of a document with a highlightlang directive and a literal
\* block after it has ended: the language of the directive is still the
\* default one.
C18_Witness ==
    /\ pc = "done"
    /\ visitor.highlightlang = "c"
    /\ LaTeXTranslator.highlightlang = "python"
    /\ \E i \in 1 .. nvisited : log[i].kind = "literal_block"
    /\ FlagsReset

\* What holds of every complete traversal: the flags set and reset by the
\* hooks of a node are back at their initial values, and the highlighting
\* language is the one of the last highlightlang directive, if any.
C18_PairedFlags ==
    pc = "done" =>
        /\ FlagsReset
        /\ LET hs == {i \in 1 .. nvisited : log[i].kind = "highlightlang"}
           IN  visitor.highlightlang
                 = IF hs = {} THEN LaTeXTranslator.highlightlang
                   ELSE log[CHOOSE i \in hs : \A j \in hs : j <= i].lang

\* A traversal that set each of the paired flags has ended.
C18_FlagsWereSet ==
    /\ pc = "done"
    /\ \E i \in 1 .. nvisited : log[i].kind = "line_block"
    /\ \E i \in 1 .. nvisited : log[i].kind = "productionlist"

\* ------------------------------------------------------------- the output

\* The last hook raised an error that ends the traversal.
Fatal == pc = "error" /\ ev.exc \notin {None, "SkipNode"}

\* C19: the writer has no output until the whole walk has completed: a
\* fatal error raised by a hook (a node of an unknown class, a table in a
\* table, a cell that spans rows or columns) leaves LaTeXWriter.output at
\* None, whatever was emitted before it, and a completed walk assigns the
\* text of the translator to it.
C19_NoPartialOutput ==
    /\ pc # "done" => writer.output = None
    /\ Fatal => writer.output = None
    /\ pc = "done" => writer.output = astext(visitor)

\* A table in a cell of a table ended the traversal after fragments were
\* emitted to both buffers.
C19_Witness ==
    /\ Fatal
    /\ ev.hook = "visit_table"
    /\ visitor.heap.main # <<>>
    /\ visitor.heap.tbl # <<>>
    /\ writer.output = None

\* A node of an unknown class, and a cell that spans, ended the traversal
\* after fragments were emitted.
C19_OtherErrors ==
    /\ Fatal
    /\ ev.hook \in {"unknown_visit", "visit_entry"}
    /\ Len(visitor.heap.main) >= 2

\* The walk of the trees built from the node kinds whose hooks do more to a
\* buffer than append to it: citations, line blocks and tables, with
\* paragraphs and text in them.
InitBuffers ==
    \/ InitFor(MaxLegendNodes,
               {"document", "citation", "label", "paragraph", "line_block", "line", "Text"})
    \/ InitFor(MaxNestedNodes,
               {"document", "table", "tgroup", "tbody", "row", "entry", "line_block", "line",
                "citation"})

NextBuffers ==
    \/ VisitDocument \/ DepartDocument
    \/ VisitCitation \/ DepartCitation
    \/ VisitLabel
    \/ VisitParagraph \/ DepartParagraph
    \/ VisitLineBlock \/ DepartLineBlock
    \/ VisitLine \/ DepartLine
    \/ VisitTable \/ DepartTable
    \/ VisitTgroup \/ DepartTgroup
    \/ VisitTbody \/ DepartTbody
    \/ VisitRow \/ DepartRow
    \/ VisitEntry \/ DepartEntry
    \/ VisitText \/ DepartText

SpecBuffers == InitBuffers /\ [][NextBuffers]_vars

\* The walk of the trees of sections and paragraphs with targets before,
\* between and in them.
InitTargets == InitFor(MaxNodes, {"document", "section", "paragraph", "target"})

NextTargets ==
    \/ VisitDocument \/ DepartDocument
    \/ VisitSection \/ DepartSection
    \/ VisitParagraph \/ DepartParagraph
    \/ VisitTarget \/ DepartTarget

SpecTargets == InitTargets /\ [][NextTargets]_vars

\* The walk of the trees of images, in paragraphs, in figures and on their
\* own, for every set of images the builder knows and either setting of
\* ignore_missing_images.
InitImage ==
    \E ignore \in BOOLEAN, images \in ImageMaps :
        StartWith([nodes |-> MaxImageNodes,
                   kinds |-> {"document", "paragraph", "figure", "image"},
                   literal |-> {PlainLiteral}, desc |-> {}],
                  [LaTeXTranslator EXCEPT !.ignore_missing_images = ignore,
                                          !.images = images])

NextImage ==
    \/ VisitDocument \/ DepartDocument
    \/ VisitParagraph \/ DepartParagraph
    \/ VisitFigure \/ DepartFigure
    \/ VisitImage \/ DepartImage

SpecImage == InitImage /\ [][NextImage]_vars

\* ------------------------------------------------------------ the warnings

TitleWarning == "encountered title node not in section, topic, admonition or sidebar"

\* The last hook entered a title whose parent is none of the kinds that
\* hold a title.
WrongParent ==
    /\ ev.hook = "visit_title"
    /\ ev.node.parent \notin {"section", "topic", "sidebar", "admonition", "seealso"}

\* The title was warned about and opened as bold text, its closer pushed.
Bold ==
    /\ ev.exc = None
    /\ TitleWarning \in visitor.warnings
    /\ body(visitor) = Append(body(ev.pre), "\\textbf{")
    /\ visitor.context = Append(ev.pre.context, PyStr("}"))

\* The last hook entered a reference whose target is of no known scheme.
Unusable ==
    /\ ev.hook = "visit_reference"
    /\ ev.node.refuri = <<"x", ".", "h", "t", "m", "l">>

ReferenceWarning == "unusable reference target found: x.html"

\* The reference pushed the empty closer and emitted nothing.
EmptyCloser ==
    /\ ev.exc = None
    /\ body(visitor) = body(ev.pre)
    /\ visitor.context = Append(ev.pre.context, PyStr(""))

\* The entries of the index node of the last hook whose type is known.
Known == {i \in DOMAIN ev.node.entries : ev.node.entries[i].type \in {"single", "pair", "triple"}}

\* An index node is skipped, with one fragment emitted for each entry of a
\* known type and a warning for the others.
IndexSkipped ==
    ev.hook = "visit_index" =>
        /\ ev.exc = "SkipNode"
        /\ Len(body(visitor)) = Len(body(ev.pre)) + Cardinality(Known)
        /\ visitor.context = ev.pre.context
        /\ \A i \in DOMAIN ev.node.entries \ Known :
             ("unknown index entry type " \o ev.node.entries[i].type \o " found")
               \in visitor.warnings

\* A hook that warns returns or skips, and the traversal goes on; a
\* completed traversal leaves the context stack empty.
Continues ==
    /\ visitor.warnings # ev.pre.warnings => ev.exc \in {None, "SkipNode"} /\ pc # "error"
    /\ pc = "done" => visitor.context = <<>> /\ count.push = count.pop

ImageEntered == ev.hook = "visit_image" /\ ev.exc = None

\* The fragments the hook of the image emitted.
ImageOut == Gained(ev.pre, visitor)

\* The fragment that includes the image of the given path is among them.
Includes(uri) ==
    \E i \in DOMAIN ImageOut :
        \E options \in {"", "[width=0.500\\linewidth,height=3cm]", "[width=10pt]"} :
            ImageOut[i] = "\\includegraphics" \o options \o "{" \o Join(uri) \o "}"

Missing == ev.node.uri \notin DOMAIN ev.pre.images

\* C21 as stated: an image the builder does not know emits nothing when
\* missing images are ignored and is emitted with its identifier as path
\* when they are not; an image with a remote identifier emits nothing,
\* whatever the builder holds for it.
C21_Original ==
    ImageEntered =>
        /\ (Missing /\ ev.pre.ignore_missing_images) => ImageOut = <<>>
        /\ (Missing /\ ~ev.pre.ignore_missing_images /\ ~find_scheme(ev.node.uri)) =>
             Includes(ev.node.uri)
        /\ find_scheme(ev.node.uri) => ImageOut = <<>>

\* An image with a remote identifier for which the builder holds a local
\* path was entered: it was emitted with that path.
C21_Witness ==
    /\ ImageEntered
    /\ find_scheme(ev.node.uri)
    /\ ~Missing
    /\ Includes(ev.pre.images[ev.node.uri])
    /\ visitor.need_graphicx = 1

\* What decides is the path, not the identifier: an image the builder
\* knows is emitted with the path the builder holds unless that path is
\* remote, an image it does not know is left out when missing images are
\* ignored or its identifier is remote, and emitted with its identifier
\* otherwise.
C21_PathDecides ==
    ImageEntered =>
        LET uri == IF Missing THEN ev.node.uri ELSE ev.pre.images[ev.node.uri]
        IN  IF (Missing /\ ev.pre.ignore_missing_images) \/ find_scheme(uri)
              THEN ImageOut = <<>>
              ELSE Includes(uri)

\* --------------------------------------------------------- the line blocks

\* The last hook entered a text leaf.
TextEntered == ev.hook = "visit_Text" /\ ev.exc = None

\* The line blocks that are open.
OpenLineBlocks == {i \in DOMAIN path : path[i].node.kind = "line_block"}

\* A line block ended inside the innermost open line block.
NestedEnded ==
    \E i \in OpenLineBlocks :
        \E j \in path[i].node.id + 1 .. nvisited :
            log[j].kind = "line_block" /\ spans[j].upto # 0

\* C22 as stated: at a text leaf below a line block the flag of literal
\* white space is set, also after a line block inside that one has ended,
\* and at a text leaf outside all line blocks it is clear.
C22_Original ==
    TextEntered => (ev.pre.literal_whitespace # 0 <=> OpenLineBlocks # {})

\* A text leaf of a line of a line block was entered after a line block
\* inside that one had ended: the flag was clear and the blank of the text
\* was emitted as it is.
C22_Witness ==
    /\ TextEntered
    /\ OpenLineBlocks # {}
    /\ NestedEnded
    /\ ev.pre.literal_whitespace = 0
    /\ Last(body(visitor)) = "a b"

\* The flag is clear at every text leaf outside all line blocks, and set at
\* every text leaf of a line block in which no line block has ended.
C22_NoNestedEnded ==
    TextEntered =>
        /\ OpenLineBlocks = {} => ev.pre.literal_whitespace = 0
        /\ (OpenLineBlocks # {} /\ ~NestedEnded) =>
             /\ ev.pre.literal_whitespace = 1
             /\ ev.node.astext = <<"a", " ", "b">> => Last(body(visitor)) = "a~b"

\* ------------------------------------------------------------- the buffers

Buffers == {"main", "tbl"}

Prefix(old, new) == Len(old) <= Len(new) /\ SubSeq(new, 1, Len(old)) = old

\* The last hook left buffer b as it was or appended to it, and left it as
\* it was when it is not the active one.
Appended(b) ==
    /\ Prefix(ev.pre.heap[b], visitor.heap[b])
    /\ b # ev.pre.body => visitor.heap[b] = ev.pre.heap[b]

\* What the hooks of citations and of tables do to buffer b: the exit of a
\* citation cuts the active buffer, the entry of a table starts the table
\* buffer and its exit appends to the main one and drops the table buffer.
Buffered(b) ==
    CASE ev.hook = "depart_citation" ->
           /\ Prefix(visitor.heap[b], ev.pre.heap[b])
           /\ b # ev.pre.body => visitor.heap[b] = ev.pre.heap[b]
      [] ev.hook \in {"visit_table", "depart_table"} ->
           b = "main" => Prefix(ev.pre.heap[b], visitor.heap[b])

\* C23 as stated: apart from the exit of a citation and the table buffer,
\* no hook removes or rewrites a fragment that is in a buffer: every other
\* hook only appends to the end of the active buffer.
C23_Original ==
    \A b \in Buffers :
        IF ev.hook \in {"depart_citation", "visit_table", "depart_table"}
          THEN Buffered(b)
          ELSE Appended(b)

\* C23: as stated, with one more exception: the exit of a line block
\* deletes the last fragment of the active buffer, whatever it is, before
\* it appends its closing.
C23_AppendOnly ==
    \A b \in Buffers :
        IF ev.hook \in {"depart_citation", "visit_table", "depart_table"}
          THEN Buffered(b)
        ELSE IF ev.hook = "depart_line_block" /\ b = ev.pre.body
          THEN IF ev.pre.heap[b] = <<>>
                 THEN ev.exc = "IndexError" /\ visitor.heap[b] = <<>>
                 ELSE visitor.heap[b] = Append(Front(ev.pre.heap[b]), "}\n")
        ELSE Appended(b)

\* A line block with a line has ended: the line break of the line was
\* deleted from the active buffer.
C23_Witness ==
    /\ ev.hook = "depart_line_block"
    /\ ev.exc = None
    /\ Last(body(ev.pre)) = "\\\\\n"
    /\ body(visitor) = Append(Front(body(ev.pre)), "}\n")

\* ------------------------------------------------------- the nested objects

\* The described objects that are open, outermost first.
OpenObjects == SelectSeq([i \in DOMAIN path |-> path[i].node], LAMBDA n : n.kind = "desc")

\* The hooks of a signature and of its parts.
SignatureHooks == PartHooks \cup {"visit_desc_signature", "depart_desc_signature"}

\* C24: the description stack holds one state for each open described
\* object, with the environment and the no-index flag of that object; the
\* hooks of a signature and of its parts change the state on top only; an
\* object described inside another one leaves the states of the stack as
\* they were when it was entered; the closing of an object names that
\* object's own environment; the stack is empty after the traversal.
C24_OneStatePerObject ==
    /\ pc # "error" =>
         /\ Len(visitor.descstack) = Len(OpenObjects)
         /\ \A i \in DOMAIN OpenObjects :
              /\ visitor.descstack[i].env = desc_map(OpenObjects[i].desctype)
              /\ visitor.descstack[i].ni = OpenObjects[i].noindex
    /\ ev.hook \in SignatureHooks =>
         /\ ev.pre.descstack # <<>>
         /\ Len(visitor.descstack) = Len(ev.pre.descstack)
         /\ Front(visitor.descstack) = Front(ev.pre.descstack)
    /\ ev.hook = "visit_desc" => Front(visitor.descstack) = ev.pre.descstack
    /\ ev.hook = "depart_desc" =>
         /\ ev.exc = None
         /\ visitor.descstack = ev.at.descstack
         /\ Last(body(visitor)) = "\\end{" \o Environment(ev.node) \o "}\n"
    /\ pc = "done" => visitor.descstack = <<>>

\* An object described in the content of another object of another
\* description type has ended, after a signature of its own that filled in
\* its name, and the outer object has had a signature.
C24_Witness ==
    /\ ev.hook = "depart_desc"
    /\ Len(visitor.descstack) = 1
    /\ visitor.descstack[1].count = 1
    /\ visitor.descstack[1].env # desc_map(ev.node.desctype)
    /\ Last(ev.pre.descstack).count = 1

\* ------------------------------------------------------ the verbatim text

\* The literal and doctest blocks that are open.
OpenLiterals ==
    {i \in DOMAIN path : path[i].node.kind \in {"literal_block", "doctest_block"}}

\* C25: while a literal or doctest block is open the accumulator holds the
\* raw text of the text leaves met in the block, each leaf having added its
\* text to it and nothing to a buffer; the exit of the block appends one
\* fragment to the active buffer and sets the accumulator to None; outside
\* such a block the accumulator is None, and a text leaf appends its
\* escaped text to the active buffer.
C25_VerbatimAccumulates ==
    /\ pc # "error" =>
         IF OpenLiterals = {}
           THEN visitor.verbatim = NoneObj
           ELSE \E i \in OpenLiterals :
                  visitor.verbatim = [chars |-> TextFrom(path[i].node.id)]
    /\ (TextEntered /\ OpenLiterals # {}) =>
         /\ visitor.verbatim.chars = ev.pre.verbatim.chars \o ev.node.astext
         /\ visitor.heap = ev.pre.heap
    /\ (TextEntered /\ OpenLiterals = {}) =>
         /\ ev.pre.verbatim = NoneObj
         /\ body(visitor) = Append(body(ev.pre), Join(encode(ev.pre, ev.node.astext)))
    /\ LiteralDeparted =>
         /\ ev.exc = None
         /\ ev.pre.verbatim # NoneObj
         /\ Len(body(visitor)) = Len(body(ev.pre)) + 1
         /\ Prefix(body(ev.pre), body(visitor))
         /\ visitor.verbatim = NoneObj

\* A text leaf with a character to escape was met after a doctest block
\* that held the same text, and was emitted escaped.
C25_Witness ==
    /\ TextEntered
    /\ OpenLiterals = {}
    /\ ev.node.astext = <<"a", "_", "b">>
    /\ Last(body(visitor)) = "a\\_b"
    /\ \E i \in 1 .. nvisited :
         /\ log[i].kind = "doctest_block"
         /\ spans[i].upto = i + 1
         /\ log[i + 1].astext = <<"a", "_", "b">>

\* -------------------------------------------------------- the option groups

\* The options of the open option group that were met before the node of
\* the last hook.
OptionsBefore ==
    Cardinality({i \in path[Len(path) - 1].node.id + 1 .. ev.node.id - 1 :
                   log[i].kind = "option"})

\* The separators among the given fragments.
Separators(out) == Cardinality({i \in DOMAIN out : out[i] = ", "})

\* C26: an option group pushes the counter 0; the exit of an option adds one
\* to the entry on top; an option emits the separator on entry when the
\* counter is not 0, that is when it is not the first option of its group;
\* the exit of a group with k options finds the counter at k, pops it,
\* which leaves the stack as it was at the entry of the group, and emits
\* the closing bracket; the group has emitted k - 1 separators.
C26_OptionCounter ==
    /\ ev.hook = "visit_option_group" =>
         /\ visitor.context = Append(ev.pre.context, PyInt(0))
         /\ body(visitor) = Append(body(ev.pre), "\\item [")
    /\ ev.hook = "visit_option" =>
         /\ ev.exc = None
         /\ visitor.context = ev.pre.context
         /\ Last(ev.pre.context) = PyInt(OptionsBefore)
         /\ IF OptionsBefore # 0
              THEN body(visitor) = Append(body(ev.pre), ", ")
              ELSE visitor.heap = ev.pre.heap
    /\ ev.hook = "depart_option" =>
         /\ ev.exc = None
         /\ visitor.context
              = Append(Front(ev.pre.context), PyInt(Last(ev.pre.context).v + 1))
         /\ visitor.heap = ev.pre.heap
    /\ ev.hook = "depart_option_group" =>
         /\ ev.exc = None
         /\ Last(ev.pre.context) = PyInt(OptionsSince)
         /\ visitor.context = ev.at.context
         /\ body(visitor) = Append(body(ev.pre), "] ")
         /\ Separators(spans[ev.node.id].out)
              = IF OptionsSince = 0 THEN 0 ELSE OptionsSince - 1

\* An option group with three options has ended: it emitted two separators.
C26_Witness ==
    /\ ev.hook = "depart_option_group"
    /\ OptionsSince = 3
    /\ Separators(spans[ev.node.id].out) = 2
    /\ Last(ev.pre.context) = PyInt(3)

\* ------------------------------------------------ the end of a line block

\* A line block has ended.
LineBlockDeparted == ev.hook = "depart_line_block" /\ ev.exc = None

\* The children of the line block that has ended.
LineBlockChildren ==
    {j \in ev.node.id + 1 .. nvisited :
       ~\E k \in ev.node.id + 1 .. j - 1 : spans[k].upto >= j}

\* The last child of the line block is a line.
EndsWithLine ==
    \E j \in LineBlockChildren : log[j].kind = "line" /\ spans[j].upto = nvisited

LineBreak == "\\\\\n"

\* The fragment the exit of the line block has deleted.
Deleted == Last(body(ev.pre))

\* C27 as stated: the fragment the exit of a line block deletes is the
\* line break of the last line of the block, for every line block.
C27_Original == LineBlockDeparted => Deleted = LineBreak

\* A line block whose last child is a line block has ended: the fragment
\* deleted is the closing of the inner block.
C27_Witness ==
    /\ LineBlockDeparted
    /\ LineBlockChildren # {}
    /\ ~EndsWithLine
    /\ Deleted = "}\n"
    /\ body(visitor) = body(ev.pre)

\* A line block with no child has ended: the fragment deleted is its own
\* opening.
C27_Empty ==
    /\ LineBlockDeparted
    /\ LineBlockChildren = {}
    /\ Deleted = "{\\raggedright{}"

\* The fragment deleted is the line break of the last line when the last
\* child of the line block is a line, and only then.
C27_AfterLine == LineBlockDeparted => (Deleted = LineBreak <=> EndsWithLine)

\* ------------------------------------------------------ the section level

\* C28: the exit of a section leaves the section level at the value it had
\* just before the entry of that section, whether the section is the one
\* whose title became the title of the document or not; from the entry of
\* the document on, the section level is never below top_sectionlevel - 1.
C28_SectionLevelBalanced ==
    /\ ev.hook = "depart_section" =>
         /\ ev.exc = None
         /\ visitor.sectionlevel = ev.at.sectionlevel
    /\ nvisited >= 1 => visitor.sectionlevel >= visitor.top_sectionlevel - 1

\* The section whose title became the title of the document has ended, with
\* a section inside it that was one level deeper.
C28_Witness ==
    /\ ev.hook = "depart_section"
    /\ ev.at.this_is_the_title = 1
    /\ visitor.this_is_the_title = 0
    /\ log[ev.node.id + 1].kind = "title"
    /\ \E i \in ev.node.id + 2 .. nvisited :
         log[i].kind = "section" /\ spans[i].upto # 0
    /\ ev.pre.sectionlevel = visitor.sectionlevel

\* -------------------------------------------------------------- the targets

\* The marker of the target of an identifier.
Hypertarget(id) == "\\hypertarget{" \o id \o "}{}"

\* The places of the main buffer that hold the marker of the identifier.
Markers(id) == {i \in DOMAIN visitor.heap.main : visitor.heap.main[i] = Hypertarget(id)}

\* The last hook entered a target with an identifier not written before
\* that found a section as its next sibling.
BeforeSection ==
    /\ ev.hook = "visit_target"
    /\ ev.node.has_refid
    /\ ev.node.refid \notin ev.pre.written_ids
    /\ ev.node.next = "section"

\* A target before a section emits nothing and is left pending; the entry
\* of the section, which is the next node visited, emits its marker after
\* the break of the section and clears it; no target is pending at any
\* other time.
Deferred ==
    /\ BeforeSection =>
         /\ ev.exc = None
         /\ visitor.heap = ev.pre.heap
         /\ visitor.next_section_target = Join(ev.node.refid)
    /\ visitor.next_section_target # None =>
         /\ ev.node.kind = "target"
         /\ visitor.next_section_target = Join(ev.node.refid)
    /\ ev.hook = "visit_section" =>
         /\ visitor.next_section_target = None
         /\ body(visitor)
              = body(ev.pre) \o (IF ev.pre.next_section_target = None THEN <<"\n\n">>
                                 ELSE <<"\n\n", Hypertarget(ev.pre.next_section_target)>>)

\* C29 as stated: a target before a section is deferred and emitted once,
\* at the entry of the next section, after which no target is pending; the
\* marker of an identifier is emitted at most once in the traversal.
C29_Original ==
    /\ Deferred
    /\ \A id \in {"a", "index-0"} : Cardinality(Markers(id)) <= 1

\* The marker of an identifier is in the buffer twice: a target before a
\* section had it, and a target met later has it too.
C29_Witness ==
    /\ ev.hook = "visit_target"
    /\ Cardinality(Markers("a")) = 2
    /\ \E i \in 1 .. nvisited - 1 :
         /\ log[i].kind = "target"
         /\ log[i].next = "section"
         /\ log[i].refid = ev.node.refid
    /\ visitor.written_ids = {<<"a">>}
    /\ ev.pre.written_ids = {}

\* The deferral is as stated, and an identifier that was never deferred is
\* emitted at most once.
C29_DeferredOnce ==
    /\ Deferred
    /\ \A id \in {<<"a">>, <<"i", "n", "d", "e", "x", "-", "0">>} :
         (~\E i \in 1 .. nvisited :
             /\ log[i].kind = "target"
             /\ log[i].has_refid
             /\ log[i].refid = id
             /\ log[i].next = "section")
           => Cardinality(Markers(Join(id))) <= 1

\* -------------------------------------------------------- the end of a table

\* depart_table has returned: the main buffer has grown by an opening
\* wrapper, a column spec, the body that was buffered and a closing wrapper,
\* it is the active buffer again, and the state of the table is reset.
Completed ==
    /\ ev.exc = None
    /\ pc # "error"
    /\ Opening \in {w[1] : w \in Wrappers}
    /\ Closing \in {w[2] : w \in Wrappers}
    /\ visitor.heap.main
         = ev.pre.heap.main \o <<Opening, ColumnSpec>> \o ev.pre.heap.tbl \o <<Closing>>
    /\ visitor.body = "main"
    /\ visitor.tablebody = None
    /\ visitor.table = NoneObj

\* C30 as stated: depart_table completes for every table that reaches it,
\* for any number of colspec nodes, zero included, either value of the
\* verbatim flag and with or without an explicit column spec: it emits an
\* opening wrapper, the buffered body and a closing wrapper, restores the
\* main buffer and resets the table state, and raises no error.
C30_Original == ev.hook = "depart_table" => Completed

\* A table with a literal block, no colspec node and no explicit column
\* spec has reached depart_table, which raised after the opening wrapper:
\* the buffered body and the closing wrapper are not emitted and the state
\* of the table is not reset.
C30_Witness ==
    /\ ev.hook = "depart_table"
    /\ ev.pre.table.has_verbatim
    /\ ev.pre.table.colcount = 0
    /\ ev.pre.table.colspec = None
    /\ ev.exc = "ZeroDivisionError"
    /\ visitor.body = "main"
    /\ visitor.tablebody # None
    /\ Last(visitor.heap.main) = "\n\\begin{tabular}"

\* depart_table completes for every table but the one with a literal block,
\* no colspec node and no explicit column spec: among them the tables of no
\* colspec node with an explicit spec or without a literal block.
C30_DivisorNotZero ==
    (/\ ev.hook = "depart_table"
     /\ ~(ev.pre.table.has_verbatim
          /\ ev.pre.table.colcount = 0
          /\ ev.pre.table.colspec = None)) => Completed

====
